---- MODULE Spec2Model ----
(***************************************************************************)
(* Model of ImageDatabase (image_database.h) and the ConcurrentQueue it    *)
(* uses (concurrent_queue.h): one consumer thread that owns the registry   *)
(* entries_, a pool of worker threads running workerThreadFunc, and the    *)
(* two queues between them.                                                *)
(***************************************************************************)
EXTENDS Integers, Sequences, FiniteSets, TLC

\* ---------------------------------------------------------------- bounds
NumImages == 2      \* image indices are 0 .. NumImages-1
NumWorkers == 2     \* largest value of std::thread::hardware_concurrency()
MaxTasks == 2       \* tasks pushed to the task queue in one run of the model
MaxItems == 2       \* items pushed to the queue of the ConcurrentQueue model
QueueThreads == 2   \* threads that use the queue of the ConcurrentQueue model

Idx == 0 .. (NumImages - 1)
Workers == 1 .. NumWorkers

\* The threads that call the operations of one ConcurrentQueue
Threads == 1 .. QueueThreads

\* ------------------------------------------------------------ file system
\* The image paths the consumer passes.  What LibRaw makes of the file behind
\* a path (open_file / unpack, unpack_thumb, dcraw_process) is outside the
\* program: each call of the library succeeds or fails, chosen in the worker
\* steps below.
Paths == {"a.raw", "b.raw"}

\* ------------------------------------------------------------------ types
PreviewOnly == "PreviewOnly"
RawOnly == "RawOnly"
Both == "Both"
LoadType == {PreviewOnly, RawOnly, Both}

Preview == "Preview"
Raw == "Raw"
ImageType == {Preview, Raw}

LoadTask(i, p, lt) == [imageIndex |-> i, imagePath |-> p, loadType |-> lt]

\* pixels / rawImage: TRUE when the pointer is non-null
LoadResult(i, ty, pix, img) ==
    [imageIndex |-> i, type |-> ty, pixels |-> pix, rawImage |-> img]

\* An ImageEntry; present = FALSE models "no entry in entries_".
\* preview / raw: TRUE when the GpuTexture holds a texture.
ImageEntry ==
    [present |-> TRUE, preview |-> FALSE, raw |-> FALSE,
     previewLoaded |-> FALSE, rawLoaded |-> FALSE,
     previewRequested |-> FALSE, rawRequested |-> FALSE]

NoEntry == [ImageEntry EXCEPT !.present = FALSE]

NoTask == [imageIndex |-> 0, imagePath |-> "", loadType |-> "none"]

\* The decode stages a task of a load type performs
Stages(lt) ==
    CASE lt = PreviewOnly -> {Preview}
      [] lt = RawOnly -> {Raw}
      [] lt = Both -> {Preview, Raw}
      [] OTHER -> {}

VARIABLES
    entries,        \* entries_ : index -> ImageEntry
    taskQueue,      \* taskQueue_
    resultsQueue,   \* resultsQueue_
    running,        \* running_
    wpc,            \* position of each worker thread in workerThreadFunc
    wtask,          \* the local LoadTask of each worker thread
    cpc,            \* position of the consumer thread
    ret,            \* value returned by the consumer's last call
    pushes,         \* number of tasks the consumer's last call pushed
    issued,         \* history: load types pushed for an index, in order
    popped,         \* history: load types a worker has popped for an index
    applied,        \* history: result types update() has applied for an index
    failed,         \* history: stages a worker gave up for an index
    \* one ConcurrentQueue<LoadResult> with the steps of its operations
    mutex,          \* mutex_ : the set of threads that hold it
    queue,          \* queue_ : the LoadResult objects in the std::queue
    tpc,            \* position of each thread in its queue operation
    local,          \* the LoadResult a thread has built and passes to push
    value,          \* the parameter 'value' of push
    out,            \* the LoadResult a thread passes to tryPop as 'out'
    tret,           \* what the thread's queue operation is about to return
    nextTag,        \* the number of LoadResults built so far
    pushOrder,      \* history: tags in the order their push completed
    returned,       \* history: tags in the order tryPop moved them out
    freed,          \* history: how often each buffer has been freed
    \* the thread of main() that drives the database
    currentImageIndex,      \* app.currentImageIndex
    requestedImageIndex,    \* app.requestedImageIndex
    mpc,            \* position of main() in its frame loop
    \* the order of the tasks through the task queue
    taskOrder,      \* history: tasks in the order the consumer pushed them
    popOrder        \* history: tasks in the order the workers received them

dbvars == <<entries, taskQueue, resultsQueue, running, wpc, wtask, cpc, ret,
            pushes, issued, popped, applied, failed>>

qvars == <<mutex, queue, tpc, local, value, out, tret, nextTag, pushOrder,
           returned, freed>>

mvars == <<currentImageIndex, requestedImageIndex, mpc>>

ovars == <<taskOrder, popOrder>>

vars == <<entries, taskQueue, resultsQueue, running, wpc, wtask, cpc, ret,
          pushes, issued, popped, applied, failed, mutex, queue, tpc, local,
          value, out, tret, nextTag, pushOrder, returned, freed,
          currentImageIndex, requestedImageIndex, mpc, taskOrder, popOrder>>

hist == <<issued, popped, applied, failed>>

\* ------------------------------------------------------- ConcurrentQueue
Push_Front(q, v) == <<v>> \o q

Push(q, v) == Append(q, v)

QEmpty(q) == q = <<>>

Front_Last(q) == q[Len(q)]

Front(q) == Head(q)

Pop(q) == Tail(q)

\* A LoadResult object of the queue model: tag stands for the scalar fields
\* (imageIndex, type, orientation), pixels and rawImage name the buffer the
\* pointer refers to, 0 for nullptr
NullResult == [tag |-> 0, pixels |-> 0, rawImage |-> 0]

\* The LoadResult loadPreview (ty = Preview) or loadRaw (ty = Raw) builds;
\* buffer n is the one decoded for it
NewResult(n, ty) ==
    [tag |-> n,
     pixels |-> IF ty = Preview THEN n ELSE 0,
     rawImage |-> IF ty = Raw THEN n ELSE 0]

\* What a queue operation returns: ok for the bool of tryPop and empty, n for
\* the size_t of size
Ret(op, ok, n) == [op |-> op, ok |-> ok, n |-> n]

\* Where main() is: at names the statement, i the list loop's variable.
\* Off: the database is driven by arbitrary calls, not by main()
MainAt(a, k) == [at |-> a, i |-> k]

Off == MainAt("off", 0)

\* The number of tasks a run may push: MaxTasks under arbitrary calls; main()
\* asks for two stages per image at most, which needs no further bound
TaskCap == IF mpc = Off THEN MaxTasks ELSE 2 * NumImages

\* ------------------------------------------------------------------ Init
Init ==
    /\ mutex = {}
    /\ queue = <<>>
    /\ tpc = [t \in Threads |-> "idle"]
    /\ local = [t \in Threads |-> NullResult]
    /\ value = [t \in Threads |-> NullResult]
    /\ out = [t \in Threads |-> NullResult]
    /\ tret = [t \in Threads |-> Ret("none", TRUE, 0)]
    /\ nextTag = 0
    /\ pushOrder = <<>>
    /\ returned = <<>>
    /\ freed = [b \in 1 .. MaxItems |-> 0]
    /\ entries = [i \in Idx |-> NoEntry]
    /\ taskQueue = <<>>
    /\ resultsQueue = <<>>
    /\ running = FALSE
    /\ wpc = [w \in Workers |-> "none"]
    /\ wtask = [w \in Workers |-> NoTask]
    /\ cpc = "idle"
    /\ ret = "void"
    /\ pushes = 0
    /\ issued = [i \in Idx |-> <<>>]
    /\ popped = [i \in Idx |-> {}]
    /\ applied = [i \in Idx |-> {}]
    /\ failed = [i \in Idx |-> {}]
    /\ currentImageIndex = 0
    /\ requestedImageIndex = 0
    /\ mpc = Off
    /\ taskOrder = <<>>
    /\ popOrder = <<>>

\* ------------------------------------------------------------- accessors
RECURSIVE SumLen(_, _)
SumLen(f, S) ==
    IF S = {} THEN 0
    ELSE LET x == CHOOSE y \in S : TRUE IN Len(f[x]) + SumLen(f, S \ {x})

\* The number of tasks pushed so far
NumPushed(iss) == SumLen(iss, Idx)

Found(i) == entries[i].present

\* entries_[i] (operator[]): the entry, default-constructed when absent
At(e, i) == IF e[i].present THEN e[i] ELSE ImageEntry

ThumbnailLoaded_Requested(i) == Found(i) /\ entries[i].previewRequested

\* Whether tryGetThumbnail returns the preview handle
ThumbnailLoaded(i) == Found(i) /\ entries[i].previewLoaded

ThumbnailNeedsTask_NoDedup(i) == ~Found(i) \/ ~entries[i].previewLoaded

\* Whether tryGetThumbnail pushes a task
ThumbnailNeedsTask(i) == ~Found(i) \/ ~entries[i].previewRequested

TryGetThumbnail_ByTask(i, p) ==
    /\ cpc = "idle"
    /\ IF ThumbnailLoaded(i)
       THEN /\ ret' = "preview"
            /\ pushes' = 0
            /\ UNCHANGED <<entries, taskQueue, issued>>
       ELSE /\ ret' = "nullptr"
            /\ IF \/ ThumbnailNeedsTask(i)
                  \/ \A k \in DOMAIN taskQueue :
                        taskQueue[k] # LoadTask(i, p, PreviewOnly)
               THEN /\ NumPushed(issued) < TaskCap
                    /\ pushes' = 1
                    /\ entries' = [entries EXCEPT
                          ![i] = [At(entries, i) EXCEPT !.previewRequested = TRUE]]
                    /\ taskQueue' = Push(taskQueue, LoadTask(i, p, PreviewOnly))
                    /\ issued' = [issued EXCEPT ![i] = Append(@, PreviewOnly)]
               ELSE /\ pushes' = 0
                    /\ UNCHANGED <<entries, taskQueue, issued>>
    /\ UNCHANGED <<resultsQueue, running, wpc, wtask, cpc, popped, applied, failed>>
    /\ UNCHANGED qvars

\* tryGetThumbnail(imageIndex, imagePath)
TryGetThumbnail(i, p) ==
    /\ cpc = "idle"
    /\ IF ThumbnailLoaded(i)
       THEN /\ ret' = "preview"
            /\ pushes' = 0
            /\ UNCHANGED <<entries, taskQueue, issued>>
       ELSE /\ ret' = "nullptr"
            /\ IF ThumbnailNeedsTask(i)
               THEN /\ NumPushed(issued) < TaskCap
                    /\ pushes' = 1
                    /\ entries' = [entries EXCEPT
                          ![i] = [At(entries, i) EXCEPT !.previewRequested = TRUE]]
                    /\ taskQueue' = Push(taskQueue, LoadTask(i, p, PreviewOnly))
                    /\ issued' = [issued EXCEPT ![i] = Append(@, PreviewOnly)]
               ELSE /\ pushes' = 0
                    /\ UNCHANGED <<entries, taskQueue, issued>>
    /\ UNCHANGED <<resultsQueue, running, wpc, wtask, cpc, popped, applied, failed>>
    /\ UNCHANGED qvars

\* Whether tryGetRaw returns the raw handle
RawLoaded(i) == Found(i) /\ entries[i].rawLoaded

RawNeedsTask_NoDedup(i) == ~Found(i) \/ ~entries[i].rawLoaded

\* Whether tryGetRaw pushes a task
RawNeedsTask(i) == ~Found(i) \/ ~entries[i].rawRequested

RawLoadType_AlwaysBoth(entry) == Both

RawLoadType_LoadedOnly(entry) ==
    IF entry.previewLoaded THEN RawOnly ELSE Both

\* The load type tryGetRaw chooses for an entry
RawLoadType(entry) ==
    IF entry.previewLoaded \/ entry.previewRequested THEN RawOnly ELSE Both

TryGetRaw_NoPreviewFlag(i, p) ==
    /\ cpc = "idle"
    /\ IF RawLoaded(i)
       THEN /\ ret' = "raw"
            /\ pushes' = 0
            /\ UNCHANGED <<entries, taskQueue, issued>>
       ELSE /\ ret' = "nullptr"
            /\ IF RawNeedsTask(i)
               THEN LET entry == At(entries, i)
                        loadType == RawLoadType(entry)
                    IN /\ NumPushed(issued) < TaskCap
                       /\ pushes' = 1
                       /\ entries' = [entries EXCEPT ![i] =
                              [entry EXCEPT !.rawRequested = TRUE]]
                       /\ taskQueue' = Push(taskQueue, LoadTask(i, p, loadType))
                       /\ issued' = [issued EXCEPT ![i] = Append(@, loadType)]
               ELSE /\ pushes' = 0
                    /\ UNCHANGED <<entries, taskQueue, issued>>
    /\ UNCHANGED <<resultsQueue, running, wpc, wtask, cpc, popped, applied, failed>>
    /\ UNCHANGED qvars

\* tryGetRaw(imageIndex, imagePath)
TryGetRaw(i, p) ==
    /\ cpc = "idle"
    /\ IF RawLoaded(i)
       THEN /\ ret' = "raw"
            /\ pushes' = 0
            /\ UNCHANGED <<entries, taskQueue, issued>>
       ELSE /\ ret' = "nullptr"
            /\ IF RawNeedsTask(i)
               THEN LET entry == At(entries, i)
                        loadType == RawLoadType(entry)
                    IN /\ NumPushed(issued) < TaskCap
                       /\ pushes' = 1
                       /\ entries' = [entries EXCEPT ![i] =
                              [entry EXCEPT
                                 !.rawRequested = TRUE,
                                 !.previewRequested = (loadType = Both) \/ @]]
                       /\ taskQueue' = Push(taskQueue, LoadTask(i, p, loadType))
                       /\ issued' = [issued EXCEPT ![i] = Append(@, loadType)]
               ELSE /\ pushes' = 0
                    /\ UNCHANGED <<entries, taskQueue, issued>>
    /\ UNCHANGED <<resultsQueue, running, wpc, wtask, cpc, popped, applied, failed>>
    /\ UNCHANGED qvars

IsFullyLoaded_RawOnly(i) == Found(i) /\ entries[i].rawLoaded

\* isFullyLoaded(i)
IsFullyLoaded(i) ==
    Found(i) /\ entries[i].previewLoaded /\ entries[i].rawLoaded

IsFullyLoadedCall_Creates(i) ==
    /\ cpc = "idle"
    /\ ret' = IF IsFullyLoaded(i) THEN "true" ELSE "false"
    /\ pushes' = 0
    /\ entries' = [entries EXCEPT ![i] = At(entries, i)]
    /\ UNCHANGED <<taskQueue, resultsQueue, running, wpc, wtask, cpc, hist>>
    /\ UNCHANGED qvars

\* The call isFullyLoaded(i) of the consumer thread
IsFullyLoadedCall(i) ==
    /\ cpc = "idle"
    /\ ret' = IF IsFullyLoaded(i) THEN "true" ELSE "false"
    /\ pushes' = 0
    /\ UNCHANGED <<entries, taskQueue, resultsQueue, running, wpc, wtask, cpc, hist>>
    /\ UNCHANGED qvars

RequestOne_NoFlag(st, images, i) ==
    IF st.entries[i].present
       /\ (st.entries[i].previewLoaded \/ st.entries[i].previewRequested)
    THEN st
    ELSE [entries |-> [st.entries EXCEPT ![i] = At(st.entries, i)],
          taskQueue |-> Push(st.taskQueue, LoadTask(i, images[i + 1], PreviewOnly)),
          issued |-> [st.issued EXCEPT ![i] = Append(@, PreviewOnly)]]

RequestOne_LoadedOnly(st, images, i) ==
    IF st.entries[i].present /\ st.entries[i].previewLoaded
    THEN st
    ELSE [entries |-> [st.entries EXCEPT
                         ![i] = [At(st.entries, i) EXCEPT !.previewRequested = TRUE]],
          taskQueue |-> Push(st.taskQueue, LoadTask(i, images[i + 1], PreviewOnly)),
          issued |-> [st.issued EXCEPT ![i] = Append(@, PreviewOnly)]]

\* One iteration of the loop of requestAllThumbnails, for index i, on the
\* state st = [entries, taskQueue, issued]
RequestOne(st, images, i) ==
    IF st.entries[i].present
       /\ (st.entries[i].previewLoaded \/ st.entries[i].previewRequested)
    THEN st
    ELSE [entries |-> [st.entries EXCEPT
                         ![i] = [At(st.entries, i) EXCEPT !.previewRequested = TRUE]],
          taskQueue |-> Push(st.taskQueue, LoadTask(i, images[i + 1], PreviewOnly)),
          issued |-> [st.issued EXCEPT ![i] = Append(@, PreviewOnly)]]

RECURSIVE RequestLoop(_, _, _)
RequestLoop(st, images, i) ==
    IF i >= Len(images) THEN st
    ELSE RequestLoop(RequestOne(st, images, i), images, i + 1)

\* The image lists requestAllThumbnails is called with
ImageLists == UNION {[1 .. n -> Paths] : n \in 0 .. NumImages}

RequestAllThumbnails(images) ==
    /\ cpc = "idle"
    /\ LET st == RequestLoop([entries |-> entries, taskQueue |-> taskQueue,
                              issued |-> issued], images, 0)
       IN /\ NumPushed(st.issued) <= TaskCap
          /\ entries' = st.entries
          /\ taskQueue' = st.taskQueue
          /\ issued' = st.issued
          /\ pushes' = Len(st.taskQueue) - Len(taskQueue)
    /\ ret' = "void"
    /\ UNCHANGED <<resultsQueue, running, wpc, wtask, cpc, popped, applied, failed>>
    /\ UNCHANGED qvars

\* ---------------------------------------------------------------- update
ApplyResult_BothLoaded(entry, result) ==
    IF result.type = Preview
    THEN [entry EXCEPT !.preview = result.pixels, !.previewLoaded = TRUE,
                       !.rawLoaded = TRUE]
    ELSE [entry EXCEPT !.raw = result.rawImage, !.rawLoaded = TRUE,
                       !.previewLoaded = TRUE]

ApplyResult_ClearsRequested(entry, result) ==
    IF result.type = Preview
    THEN [entry EXCEPT !.preview = result.pixels, !.previewLoaded = TRUE,
                       !.previewRequested = FALSE]
    ELSE [entry EXCEPT !.raw = result.rawImage, !.rawLoaded = TRUE,
                       !.rawRequested = FALSE]

ApplyResult_NeedsPixels(entry, result) ==
    IF result.type = Preview
    THEN [entry EXCEPT !.preview = result.pixels, !.previewLoaded = result.pixels]
    ELSE [entry EXCEPT !.raw = result.rawImage, !.rawLoaded = TRUE]

\* The effect of one iteration of update()'s loop on the entry
ApplyResult(entry, result) ==
    IF result.type = Preview
    THEN [entry EXCEPT !.preview = result.pixels, !.previewLoaded = TRUE]
    ELSE [entry EXCEPT !.raw = result.rawImage, !.rawLoaded = TRUE]

UpdatePop_Discard ==
    /\ cpc \in {"idle", "update"}
    /\ ~QEmpty(resultsQueue)
    /\ resultsQueue' = Pop(resultsQueue)
    /\ cpc' = "update"
    /\ UNCHANGED <<entries, applied>>
    /\ UNCHANGED <<taskQueue, running, wpc, wtask, ret, pushes, issued, popped, failed>>
    /\ UNCHANGED qvars

\* update(): one iteration of the loop, tryPop succeeded
UpdatePop ==
    /\ cpc \in {"idle", "update"}
    /\ ~QEmpty(resultsQueue)
    /\ LET result == Front(resultsQueue)
       IN /\ entries' = [entries EXCEPT ![result.imageIndex] =
                             ApplyResult(At(entries, result.imageIndex), result)]
          /\ applied' = [applied EXCEPT ![result.imageIndex] = @ \cup {result.type}]
    /\ resultsQueue' = Pop(resultsQueue)
    /\ cpc' = "update"
    /\ UNCHANGED <<taskQueue, running, wpc, wtask, ret, pushes, issued, popped, failed>>
    /\ UNCHANGED qvars

UpdateReturn_WaitsForWorkers ==
    /\ cpc \in {"idle", "update"}
    /\ QEmpty(resultsQueue)
    /\ \A w \in Workers : wpc[w] \notin {"init", "preview", "raw"}
    /\ cpc' = "idle"
    /\ ret' = "void"
    /\ pushes' = 0
    /\ UNCHANGED <<entries, taskQueue, resultsQueue, running, wpc, wtask, hist>>
    /\ UNCHANGED qvars

\* update(): tryPop reports empty, the loop ends and update returns
UpdateReturn ==
    /\ cpc \in {"idle", "update"}
    /\ QEmpty(resultsQueue)
    /\ cpc' = "idle"
    /\ ret' = "void"
    /\ pushes' = 0
    /\ UNCHANGED <<entries, taskQueue, resultsQueue, running, wpc, wtask, hist>>
    /\ UNCHANGED qvars

\* ------------------------------------------------------------ start, stop
\* numThreads of start() for a value hc of hardware_concurrency()
NumThreads(hc) == IF hc = 0 THEN 1 ELSE hc

Start_ClearsRegistry(hc) ==
    /\ cpc = "idle"
    /\ \A w \in Workers : wpc[w] = "none"
    /\ running' = TRUE
    /\ wpc' = [w \in Workers |-> IF w <= NumThreads(hc) THEN "check" ELSE "none"]
    /\ ret' = "void"
    /\ pushes' = 0
    /\ entries' = [i \in Idx |-> NoEntry]
    /\ UNCHANGED <<taskQueue, resultsQueue, wtask, cpc, hist>>
    /\ UNCHANGED qvars

\* start(): the pool is modelled for one set of threads at a time
Start(hc) ==
    /\ cpc = "idle"
    /\ \A w \in Workers : wpc[w] = "none"
    /\ running' = TRUE
    /\ wpc' = [w \in Workers |-> IF w <= NumThreads(hc) THEN "check" ELSE "none"]
    /\ ret' = "void"
    /\ pushes' = 0
    /\ UNCHANGED <<entries, taskQueue, resultsQueue, wtask, cpc, hist>>
    /\ UNCHANGED qvars

\* stop(): running_ = false, then the joins begin
StopBegin ==
    /\ cpc = "idle"
    /\ running' = FALSE
    /\ cpc' = "stop"
    /\ UNCHANGED <<entries, taskQueue, resultsQueue, wpc, wtask, ret, pushes, hist>>
    /\ UNCHANGED qvars

Joinable_NoWait(w) == TRUE

Joinable_ExitedOnly(w) == wpc[w] = "exited"

\* Whether thread.join() of worker w returns
Joinable(w) == wpc[w] \in {"none", "exited"}

\* stop(): every join has returned, workerThreads_.clear(), stop returns
StopJoin ==
    /\ cpc = "stop"
    /\ \A w \in Workers : Joinable(w)
    /\ wpc' = [w \in Workers |-> IF wpc[w] = "exited" THEN "none" ELSE wpc[w]]
    /\ cpc' = "idle"
    /\ ret' = "void"
    /\ pushes' = 0
    /\ UNCHANGED <<entries, taskQueue, resultsQueue, running, wtask, hist>>
    /\ UNCHANGED qvars

\* ------------------------------------------------------- workerThreadFunc
WorkerCheck_IgnoreFlag(w) ==
    /\ wpc[w] = "check"
    /\ wpc' = [wpc EXCEPT ![w] = "pop"]
    /\ UNCHANGED <<entries, taskQueue, resultsQueue, running, wtask, cpc, ret, pushes, hist>>
    /\ UNCHANGED qvars

\* while (running_)
WorkerCheck(w) ==
    /\ wpc[w] = "check"
    /\ wpc' = [wpc EXCEPT ![w] = IF running THEN "pop" ELSE "exited"]
    /\ UNCHANGED <<entries, taskQueue, resultsQueue, running, wtask, cpc, ret, pushes, hist>>
    /\ UNCHANGED qvars

WorkerPop_ExitOnEmpty(w) ==
    /\ wpc[w] = "pop"
    /\ IF QEmpty(taskQueue)
       THEN /\ wpc' = [wpc EXCEPT ![w] = "exited"]
            /\ UNCHANGED <<taskQueue, wtask, popped>>
       ELSE /\ wtask' = [wtask EXCEPT ![w] = Front(taskQueue)]
            /\ taskQueue' = Pop(taskQueue)
            /\ popped' = [popped EXCEPT ![Front(taskQueue).imageIndex] =
                              @ \cup {Front(taskQueue).loadType}]
            /\ wpc' = [wpc EXCEPT ![w] = "init"]
    /\ UNCHANGED <<entries, resultsQueue, running, cpc, ret, pushes, issued, applied, failed>>
    /\ UNCHANGED qvars

\* taskQueue_.tryPop(task); on failure sleep and loop
WorkerPop(w) ==
    /\ wpc[w] = "pop"
    /\ IF QEmpty(taskQueue)
       THEN /\ wpc' = [wpc EXCEPT ![w] = "check"]
            /\ UNCHANGED <<taskQueue, wtask, popped>>
       ELSE /\ wtask' = [wtask EXCEPT ![w] = Front(taskQueue)]
            /\ taskQueue' = Pop(taskQueue)
            /\ popped' = [popped EXCEPT ![Front(taskQueue).imageIndex] =
                              @ \cup {Front(taskQueue).loadType}]
            /\ wpc' = [wpc EXCEPT ![w] = "init"]
    /\ UNCHANGED <<entries, resultsQueue, running, cpc, ret, pushes, issued, applied, failed>>
    /\ UNCHANGED qvars

FirstStage_RawFirst(lt) == IF lt = PreviewOnly THEN "preview" ELSE "raw"

\* Where workerThreadFunc goes after a successful initializeRawProcessor
FirstStage(lt) == IF lt = RawOnly THEN "raw" ELSE "preview"

WorkerInit_Requeue(w, openOk) ==
    /\ wpc[w] = "init"
    /\ IF openOk
       THEN /\ wpc' = [wpc EXCEPT ![w] = FirstStage(wtask[w].loadType)]
            /\ UNCHANGED <<wtask, failed, taskQueue>>
       ELSE /\ wpc' = [wpc EXCEPT ![w] = "check"]
            /\ wtask' = [wtask EXCEPT ![w] = NoTask]
            /\ taskQueue' = Push(taskQueue, wtask[w])
            /\ failed' = [failed EXCEPT ![wtask[w].imageIndex] =
                              @ \cup Stages(wtask[w].loadType)]
    /\ UNCHANGED <<entries, resultsQueue, running, cpc, ret, pushes,
                   issued, popped, applied>>
    /\ UNCHANGED qvars

\* initializeRawProcessor(task.imagePath) and the dispatch on loadType
WorkerInit(w, openOk) ==
    /\ wpc[w] = "init"
    /\ IF openOk
       THEN /\ wpc' = [wpc EXCEPT ![w] = FirstStage(wtask[w].loadType)]
            /\ UNCHANGED <<wtask, failed>>
       ELSE /\ wpc' = [wpc EXCEPT ![w] = "check"]
            /\ wtask' = [wtask EXCEPT ![w] = NoTask]
            /\ failed' = [failed EXCEPT ![wtask[w].imageIndex] =
                              @ \cup Stages(wtask[w].loadType)]
    /\ UNCHANGED <<entries, taskQueue, resultsQueue, running, cpc, ret, pushes,
                   issued, popped, applied>>
    /\ UNCHANGED qvars

PreviewResult_OtherIndex(task, hasThumb) ==
    LoadResult((task.imageIndex + 1) % NumImages, Preview, hasThumb, FALSE)

\* The result loadPreview pushes for a task
PreviewResult(task, hasThumb) ==
    LoadResult(task.imageIndex, Preview, hasThumb, FALSE)

WorkerLoadPreview_HandOff(w, hasThumb) ==
    /\ wpc[w] = "preview"
    /\ resultsQueue' = Push(resultsQueue, PreviewResult(wtask[w], hasThumb))
    /\ wpc' = [wpc EXCEPT ![w] = "check"]
    /\ wtask' = [wtask EXCEPT ![w] = NoTask]
    /\ taskQueue' = IF wtask[w].loadType = Both
                    THEN Push(taskQueue, [wtask[w] EXCEPT !.loadType = RawOnly])
                    ELSE taskQueue
    /\ UNCHANGED <<entries, running, cpc, ret, pushes, hist>>
    /\ UNCHANGED qvars

\* loadPreview(task, *rawProcessor)
WorkerLoadPreview(w, hasThumb) ==
    /\ wpc[w] = "preview"
    /\ resultsQueue' = Push(resultsQueue, PreviewResult(wtask[w], hasThumb))
    /\ IF wtask[w].loadType = Both
       THEN /\ wpc' = [wpc EXCEPT ![w] = "raw"]
            /\ UNCHANGED wtask
       ELSE /\ wpc' = [wpc EXCEPT ![w] = "check"]
            /\ wtask' = [wtask EXCEPT ![w] = NoTask]
    /\ UNCHANGED <<entries, taskQueue, running, cpc, ret, pushes, hist>>
    /\ UNCHANGED qvars

\* The result loadRaw pushes for a task
RawResult(task) == LoadResult(task.imageIndex, Raw, FALSE, TRUE)

WorkerLoadRaw_AbandonOnStop(w, processOk) ==
    /\ wpc[w] = "raw"
    /\ IF ~running
       THEN UNCHANGED <<resultsQueue, failed>>
       ELSE IF processOk
            THEN /\ resultsQueue' = Push(resultsQueue, RawResult(wtask[w]))
                 /\ UNCHANGED failed
            ELSE /\ failed' = [failed EXCEPT ![wtask[w].imageIndex] = @ \cup {Raw}]
                 /\ UNCHANGED resultsQueue
    /\ wpc' = [wpc EXCEPT ![w] = IF running THEN "check" ELSE "exited"]
    /\ wtask' = [wtask EXCEPT ![w] = NoTask]
    /\ UNCHANGED <<entries, taskQueue, running, cpc, ret, pushes, issued, popped, applied>>
    /\ UNCHANGED qvars

WorkerLoadRaw_InOrder(w, processOk) ==
    /\ wpc[w] = "raw"
    /\ \A x \in Workers \ {w} :
          ~(wpc[x] \in {"init", "preview"} /\ wtask[x].imageIndex = wtask[w].imageIndex)
    /\ IF processOk
       THEN /\ resultsQueue' = Push(resultsQueue, RawResult(wtask[w]))
            /\ UNCHANGED failed
       ELSE /\ failed' = [failed EXCEPT ![wtask[w].imageIndex] = @ \cup {Raw}]
            /\ UNCHANGED resultsQueue
    /\ wpc' = [wpc EXCEPT ![w] = "check"]
    /\ wtask' = [wtask EXCEPT ![w] = NoTask]
    /\ UNCHANGED <<entries, taskQueue, running, cpc, ret, pushes, issued, popped, applied>>
    /\ UNCHANGED qvars

\* loadRaw(task, *rawProcessor)
WorkerLoadRaw(w, processOk) ==
    /\ wpc[w] = "raw"
    /\ IF processOk
       THEN /\ resultsQueue' = Push(resultsQueue, RawResult(wtask[w]))
            /\ UNCHANGED failed
       ELSE /\ failed' = [failed EXCEPT ![wtask[w].imageIndex] = @ \cup {Raw}]
            /\ UNCHANGED resultsQueue
    /\ wpc' = [wpc EXCEPT ![w] = "check"]
    /\ wtask' = [wtask EXCEPT ![w] = NoTask]
    /\ UNCHANGED <<entries, taskQueue, running, cpc, ret, pushes, issued, popped, applied>>
    /\ UNCHANGED qvars

WorkerStep(w) ==
    \/ WorkerCheck(w)
    \/ WorkerPop(w)
    \/ \E openOk \in BOOLEAN : WorkerInit(w, openOk)
    \/ \E hasThumb \in BOOLEAN : WorkerLoadPreview(w, hasThumb)
    \/ \E processOk \in BOOLEAN : WorkerLoadRaw(w, processOk)

\* ------------------------------------------------------------------ Next
\* main() is not in its loop and the order of the tasks is not recorded
Idle == UNCHANGED <<mvars, ovars>>

Next ==
    \/ (\E i \in Idx, p \in Paths : TryGetThumbnail(i, p)) /\ Idle
    \/ (\E i \in Idx, p \in Paths : TryGetRaw(i, p)) /\ Idle
    \/ (\E i \in Idx : IsFullyLoadedCall(i)) /\ Idle
    \/ (\E images \in ImageLists : RequestAllThumbnails(images)) /\ Idle
    \/ UpdatePop /\ Idle
    \/ UpdateReturn /\ Idle
    \/ (\E hc \in 0 .. NumWorkers : Start(hc)) /\ Idle
    \/ StopBegin /\ Idle
    \/ StopJoin /\ Idle
    \/ (\E w \in Workers : WorkerStep(w)) /\ Idle

Spec == Init /\ [][Next]_vars

\* The worker threads are scheduled fairly, and a stop() in progress goes on
FairSpec ==
    /\ Spec
    /\ \A w \in Workers : WF_vars(WorkerStep(w) /\ Idle)
    /\ WF_vars(StopJoin /\ Idle)

\* The workers are scheduled fairly, a stop() in progress goes on, and the
\* consumer thread goes on with an update() it is in and calls update() again
\* and again (once per frame)
ConsumerFairSpec ==
    /\ FairSpec
    /\ SF_vars((UpdatePop \/ UpdateReturn) /\ Idle)

\* ------------------------------------------------------------ main()
\* app.images[i].string(): the directory listing main() has read
ImagePath(i) == IF i % 2 = 0 THEN "a.raw" ELSE "b.raw"

Images == [k \in 1 .. NumImages |-> ImagePath(k - 1)]

\* Where main() goes after item i of the file list
AfterItem(list, update, i) ==
    IF i + 1 < NumImages THEN MainAt(list, i + 1) ELSE MainAt(update, 0)

\* app.database->update() of a frame; then main() goes on at 'after'
MainUpdate(here, after) ==
    /\ mpc.at = here
    /\ \/ UpdatePop /\ UNCHANGED mpc
       \/ UpdateReturn /\ mpc' = MainAt(after, 0)
    /\ UNCHANGED <<currentImageIndex, requestedImageIndex, ovars>>

\* The event loop ends at the start of a frame; delete app.database runs
\* the destructor, which calls stop()
Main_Quit ==
    /\ mpc \in {MainAt("list1", 0), MainAt("list2", 0)}
    /\ StopBegin
    /\ mpc' = MainAt("quit", 0)
    /\ UNCHANGED <<currentImageIndex, requestedImageIndex, ovars>>

Main_Joined ==
    /\ mpc.at = "quit"
    /\ StopJoin
    /\ mpc' = MainAt("done", 0)
    /\ UNCHANGED <<currentImageIndex, requestedImageIndex, ovars>>

\* The main() that requests the selected image in every frame.
\* new ImageDatabase(renderer); start()
Main1_Start(hc) ==
    /\ mpc = Off
    /\ Start(hc)
    /\ mpc' = MainAt("list1", 0)
    /\ UNCHANGED <<currentImageIndex, requestedImageIndex, ovars>>

\* One item of the file list: a click selects it, and its thumbnail is
\* requested when the item is visible
Main1_Item(clicked, visible) ==
    /\ mpc.at = "list1"
    /\ currentImageIndex' = IF clicked THEN mpc.i ELSE currentImageIndex
    /\ IF visible
       THEN TryGetThumbnail(mpc.i, ImagePath(mpc.i))
       ELSE UNCHANGED <<dbvars, qvars>>
    /\ mpc' = AfterItem("list1", "update1", mpc.i)
    /\ UNCHANGED <<requestedImageIndex, ovars>>

Main1_Update == MainUpdate("update1", "thumb1")

\* currentPreview = tryGetThumbnail(currentImageIndex, ...)
Main1_Thumbnail ==
    /\ mpc.at = "thumb1"
    /\ TryGetThumbnail(currentImageIndex, ImagePath(currentImageIndex))
    /\ mpc' = MainAt("raw1", 0)
    /\ UNCHANGED <<currentImageIndex, requestedImageIndex, ovars>>

\* currentRaw = tryGetRaw(currentImageIndex, ...)
Main1_Raw ==
    /\ mpc.at = "raw1"
    /\ TryGetRaw(currentImageIndex, ImagePath(currentImageIndex))
    /\ mpc' = MainAt("list1", 0)
    /\ UNCHANGED <<currentImageIndex, requestedImageIndex, ovars>>

Main1Next ==
    \/ \E hc \in 0 .. NumWorkers : Main1_Start(hc)
    \/ \E clicked, visible \in BOOLEAN : Main1_Item(clicked, visible)
    \/ Main1_Update
    \/ Main1_Thumbnail
    \/ Main1_Raw
    \/ Main_Quit
    \/ Main_Joined
    \/ (\E w \in Workers : WorkerStep(w)) /\ Idle

Main1Spec == Init /\ [][Main1Next]_vars

\* The main() that requests all thumbnails at startup and shows an image
\* once it is fully loaded.
\* new ImageDatabase(renderer); start()
Main2_Start(hc) ==
    /\ mpc = Off
    /\ Start(hc)
    /\ mpc' = MainAt("request_all", 0)
    /\ UNCHANGED <<currentImageIndex, requestedImageIndex, ovars>>

\* requestAllThumbnails(app.images)
Main2_RequestAll ==
    /\ mpc.at = "request_all"
    /\ RequestAllThumbnails(Images)
    /\ mpc' = MainAt("list2", 0)
    /\ UNCHANGED <<currentImageIndex, requestedImageIndex, ovars>>

\* One item of the file list: its thumbnail is asked for, and a click makes
\* it the requested image
Main2_Item(clicked) ==
    /\ mpc.at = "list2"
    /\ TryGetThumbnail(mpc.i, ImagePath(mpc.i))
    /\ requestedImageIndex' = IF clicked THEN mpc.i ELSE requestedImageIndex
    /\ mpc' = AfterItem("list2", "update2", mpc.i)
    /\ UNCHANGED <<currentImageIndex, ovars>>

Main2_Update == MainUpdate("update2", "raw_requested")

\* tryGetRaw(requestedImageIndex, ...)
Main2_RawRequested ==
    /\ mpc.at = "raw_requested"
    /\ TryGetRaw(requestedImageIndex, ImagePath(requestedImageIndex))
    /\ mpc' = MainAt("assign", 0)
    /\ UNCHANGED <<currentImageIndex, requestedImageIndex, ovars>>

Main2_Assign_Always ==
    /\ mpc.at = "assign"
    /\ IsFullyLoadedCall(requestedImageIndex)
    /\ currentImageIndex' = requestedImageIndex
    /\ mpc' = MainAt("thumb2", 0)
    /\ UNCHANGED <<requestedImageIndex, ovars>>

\* if (isFullyLoaded(requestedImageIndex)) currentImageIndex = requestedImageIndex
Main2_Assign ==
    /\ mpc.at = "assign"
    /\ IsFullyLoadedCall(requestedImageIndex)
    /\ currentImageIndex' = IF IsFullyLoaded(requestedImageIndex)
                            THEN requestedImageIndex
                            ELSE currentImageIndex
    /\ mpc' = MainAt("thumb2", 0)
    /\ UNCHANGED <<requestedImageIndex, ovars>>

\* currentPreview = tryGetThumbnail(currentImageIndex, ...)
Main2_Thumbnail ==
    /\ mpc.at = "thumb2"
    /\ TryGetThumbnail(currentImageIndex, ImagePath(currentImageIndex))
    /\ mpc' = MainAt("raw2", 0)
    /\ UNCHANGED <<currentImageIndex, requestedImageIndex, ovars>>

\* currentRaw = tryGetRaw(currentImageIndex, ...)
Main2_Raw ==
    /\ mpc.at = "raw2"
    /\ TryGetRaw(currentImageIndex, ImagePath(currentImageIndex))
    /\ mpc' = MainAt("list2", 0)
    /\ UNCHANGED <<currentImageIndex, requestedImageIndex, ovars>>

Main2Next ==
    \/ \E hc \in 0 .. NumWorkers : Main2_Start(hc)
    \/ Main2_RequestAll
    \/ \E clicked \in BOOLEAN : Main2_Item(clicked)
    \/ Main2_Update
    \/ Main2_RawRequested
    \/ Main2_Assign
    \/ Main2_Thumbnail
    \/ Main2_Raw
    \/ Main_Quit
    \/ Main_Joined
    \/ (\E w \in Workers : WorkerStep(w)) /\ Idle

Main2Spec == Init /\ [][Main2Next]_vars

\* ------------------------------------------- the order of the tasks
\* The tasks of S in the order of their index, from index i on: the order in
\* which one call pushes them
RECURSIVE ByIndex(_, _)
ByIndex(S, i) ==
    IF i >= NumImages
    THEN <<>>
    ELSE (IF \E t \in S : t.imageIndex = i
          THEN <<CHOOSE t \in S : t.imageIndex = i>>
          ELSE <<>>) \o ByIndex(S, i + 1)

\* The elements of the sequence q
Range(q) == {q[k] : k \in DOMAIN q}

\* What a step adds to the two histories: the tasks the consumer has pushed
\* and the task a worker's tryPop has handed to it
Record ==
    /\ taskOrder' = taskOrder \o ByIndex(Range(taskQueue') \ Range(taskQueue), 0)
    /\ popOrder' =
          IF \E w \in Workers : wpc[w] = "pop" /\ wpc'[w] = "init"
          THEN Append(popOrder,
                      wtask'[CHOOSE w \in Workers : wpc[w] = "pop" /\ wpc'[w] = "init"])
          ELSE popOrder
    /\ UNCHANGED mvars

\* The database under arbitrary calls, with the order of the tasks recorded
OrderNext ==
    \/ (\E i \in Idx, p \in Paths : TryGetThumbnail(i, p)) /\ Record
    \/ (\E i \in Idx, p \in Paths : TryGetRaw(i, p)) /\ Record
    \/ (\E i \in Idx : IsFullyLoadedCall(i)) /\ Record
    \/ (\E images \in ImageLists : RequestAllThumbnails(images)) /\ Record
    \/ UpdatePop /\ Record
    \/ UpdateReturn /\ Record
    \/ (\E hc \in 0 .. NumWorkers : Start(hc)) /\ Record
    \/ StopBegin /\ Record
    \/ StopJoin /\ Record
    \/ (\E w \in Workers : WorkerStep(w)) /\ Record

OrderSpec == Init /\ [][OrderNext]_vars

\* ---------------------------------------- ConcurrentQueue, step by step
\* The operations of one ConcurrentQueue<LoadResult> as the threads execute
\* them: the lock_guard is taken, the body runs on queue_, the lock_guard is
\* released on return.  Objects are moved as LoadResult's move constructor
\* and move assignment move them.

\* The buffers a LoadResult owns
Buffers(r) == {r.pixels, r.rawImage} \ {0}

\* freed after the destructor of r (or the release in its move assignment)
Free(f, r) == [b \in DOMAIN f |-> IF b \in Buffers(r) THEN f[b] + 1 ELSE f[b]]

MovedFrom_Copied(r) == r

\* A LoadResult after it has been moved from
MovedFrom(r) == [r EXCEPT !.pixels = 0, !.rawImage = 0]

Lockable_NoMutex(t) == TRUE

\* Whether the constructor of lock_guard returns for thread t
Lockable(t) == mutex = {}

Released_Never(m, t) == m

\* mutex_ after the destructor of the lock_guard of thread t
Released(m, t) == m \ {t}

\* Where each operation waits for the mutex, and where it goes with it
LockPcs == {"push_lock", "pop_lock", "empty_lock", "size_lock"}

AfterLock(pc) ==
    CASE pc = "push_lock" -> "push_body"
      [] pc = "pop_lock" -> "pop_test"
      [] pc = "empty_lock" -> "empty_read"
      [] pc = "size_lock" -> "size_read"

\* A thread builds a LoadResult with a decoded buffer (loadPreview, loadRaw)
\* and calls push(std::move(result)): 'value' is move-constructed from it
PushCall(t, ty) ==
    /\ tpc[t] = "idle"
    /\ nextTag < MaxItems
    /\ nextTag' = nextTag + 1
    /\ LET result == NewResult(nextTag + 1, ty)
       IN /\ value' = [value EXCEPT ![t] = result]
          /\ local' = [local EXCEPT ![t] = MovedFrom(result)]
    /\ tpc' = [tpc EXCEPT ![t] = "push_lock"]
    /\ UNCHANGED <<mutex, queue, out, tret, pushOrder, returned, freed>>
    /\ UNCHANGED dbvars

\* A thread calls tryPop(out), empty() or size()
Call(t, op) ==
    /\ tpc[t] = "idle"
    /\ tpc' = [tpc EXCEPT ![t] = op]
    /\ UNCHANGED <<mutex, queue, local, value, out, tret, nextTag, pushOrder,
                   returned, freed>>
    /\ UNCHANGED dbvars

\* std::lock_guard<std::mutex> lock(mutex_)
Lock(t) ==
    /\ tpc[t] \in LockPcs
    /\ Lockable(t)
    /\ mutex' = mutex \cup {t}
    /\ tpc' = [tpc EXCEPT ![t] = AfterLock(tpc[t])]
    /\ UNCHANGED <<queue, local, value, out, tret, nextTag, pushOrder, returned, freed>>
    /\ UNCHANGED dbvars

\* push: queue_.push(std::move(value))
PushBody(t) ==
    /\ tpc[t] = "push_body"
    /\ queue' = Push(queue, value[t])
    /\ value' = [value EXCEPT ![t] = MovedFrom(value[t])]
    /\ pushOrder' = Append(pushOrder, value[t].tag)
    /\ tret' = [tret EXCEPT ![t] = Ret("push", TRUE, 0)]
    /\ tpc' = [tpc EXCEPT ![t] = "unlock"]
    /\ UNCHANGED <<mutex, local, out, nextTag, returned, freed>>
    /\ UNCHANGED dbvars

\* tryPop: if (queue_.empty()) return false
PopTest(t) ==
    /\ tpc[t] = "pop_test"
    /\ IF QEmpty(queue)
       THEN /\ tret' = [tret EXCEPT ![t] = Ret("tryPop", FALSE, 0)]
            /\ tpc' = [tpc EXCEPT ![t] = "unlock"]
       ELSE /\ tpc' = [tpc EXCEPT ![t] = "pop_move"]
            /\ UNCHANGED tret
    /\ UNCHANGED <<mutex, queue, local, value, out, nextTag, pushOrder, returned, freed>>
    /\ UNCHANGED dbvars

PopMove_NoRelease(t) ==
    /\ tpc[t] = "pop_move"
    /\ queue # <<>>
    /\ out' = [out EXCEPT ![t] = Front(queue)]
    /\ queue' = [queue EXCEPT ![1] = MovedFrom(Front(queue))]
    /\ returned' = Append(returned, Front(queue).tag)
    /\ tpc' = [tpc EXCEPT ![t] = "pop_pop"]
    /\ UNCHANGED <<mutex, local, value, tret, nextTag, pushOrder, freed>>
    /\ UNCHANGED dbvars

\* tryPop: out = std::move(queue_.front()); the move assignment releases
\* what out held.  front() needs a non-empty queue.
PopMove(t) ==
    /\ tpc[t] = "pop_move"
    /\ queue # <<>>
    /\ out' = [out EXCEPT ![t] = Front(queue)]
    /\ freed' = Free(freed, out[t])
    /\ queue' = [queue EXCEPT ![1] = MovedFrom(Front(queue))]
    /\ returned' = Append(returned, Front(queue).tag)
    /\ tpc' = [tpc EXCEPT ![t] = "pop_pop"]
    /\ UNCHANGED <<mutex, local, value, tret, nextTag, pushOrder>>
    /\ UNCHANGED dbvars

\* tryPop: queue_.pop(); return true.  pop() destroys the front object.
PopPop(t) ==
    /\ tpc[t] = "pop_pop"
    /\ queue # <<>>
    /\ queue' = Pop(queue)
    /\ freed' = Free(freed, Front(queue))
    /\ tret' = [tret EXCEPT ![t] = Ret("tryPop", TRUE, 0)]
    /\ tpc' = [tpc EXCEPT ![t] = "unlock"]
    /\ UNCHANGED <<mutex, local, value, out, nextTag, pushOrder, returned>>
    /\ UNCHANGED dbvars

\* empty: return queue_.empty()
EmptyRead(t) ==
    /\ tpc[t] = "empty_read"
    /\ tret' = [tret EXCEPT ![t] = Ret("empty", QEmpty(queue), 0)]
    /\ tpc' = [tpc EXCEPT ![t] = "unlock"]
    /\ UNCHANGED <<mutex, queue, local, value, out, nextTag, pushOrder, returned, freed>>
    /\ UNCHANGED dbvars

\* size: return queue_.size()
SizeRead(t) ==
    /\ tpc[t] = "size_read"
    /\ tret' = [tret EXCEPT ![t] = Ret("size", TRUE, Len(queue))]
    /\ tpc' = [tpc EXCEPT ![t] = "unlock"]
    /\ UNCHANGED <<mutex, queue, local, value, out, nextTag, pushOrder, returned, freed>>
    /\ UNCHANGED dbvars

\* The operation returns: the lock_guard releases the mutex; after a push
\* the parameter 'value' and the caller's moved-from LoadResult are destroyed
Unlock(t) ==
    /\ tpc[t] = "unlock"
    /\ mutex' = Released(mutex, t)
    /\ freed' = Free(Free(freed, value[t]), local[t])
    /\ value' = [value EXCEPT ![t] = NullResult]
    /\ local' = [local EXCEPT ![t] = NullResult]
    /\ tret' = [tret EXCEPT ![t] = Ret("none", TRUE, 0)]
    /\ tpc' = [tpc EXCEPT ![t] = "idle"]
    /\ UNCHANGED <<queue, out, nextTag, pushOrder, returned>>
    /\ UNCHANGED dbvars

\* The LoadResult a thread popped into goes out of scope (update() returns)
OutDestroy(t) ==
    /\ tpc[t] = "idle"
    /\ out[t] # NullResult
    /\ freed' = Free(freed, out[t])
    /\ out' = [out EXCEPT ![t] = NullResult]
    /\ UNCHANGED <<mutex, queue, tpc, local, value, tret, nextTag, pushOrder, returned>>
    /\ UNCHANGED dbvars

ThreadStep(t) ==
    \/ Lock(t)
    \/ PushBody(t)
    \/ PopTest(t)
    \/ PopMove(t)
    \/ PopPop(t)
    \/ EmptyRead(t)
    \/ SizeRead(t)
    \/ Unlock(t)

QueueNext ==
    \/ (\E t \in Threads, ty \in ImageType : PushCall(t, ty)) /\ Idle
    \/ (\E t \in Threads, op \in LockPcs \ {"push_lock"} : Call(t, op)) /\ Idle
    \/ (\E t \in Threads : OutDestroy(t)) /\ Idle
    \/ (\E t \in Threads : ThreadStep(t)) /\ Idle

QueueSpec == Init /\ [][QueueNext]_vars

\* Every thread in an operation is scheduled again, and a thread that keeps
\* asking for the mutex gets it
QueueFairSpec ==
    /\ QueueSpec
    /\ \A t \in Threads : WF_vars(ThreadStep(t) /\ Idle) /\ SF_vars(Lock(t) /\ Idle)

\* --------------------------------------- the lifetime of the database
\* freed after the destructors of all the LoadResults in q
RECURSIVE FreeAll(_, _)
FreeAll(f, q) == IF q = <<>> THEN f ELSE FreeAll(Free(f, Head(q)), Tail(q))

\* ~ImageDatabase(): stop() has joined the workers, then the members are
\* destroyed, resultsQueue_ with the LoadResults still in it.  No thread is in
\* an operation and update()'s local result is gone; nothing runs afterwards.
Destroy ==
    /\ \A t \in Threads : tpc[t] = "idle" /\ out[t] = NullResult
    /\ freed' = FreeAll(freed, queue)
    /\ queue' = <<>>
    /\ tpc' = [t \in Threads |-> "done"]
    /\ UNCHANGED <<mutex, local, value, out, tret, nextTag, pushOrder, returned>>
    /\ UNCHANGED dbvars

LifetimeNext ==
    \/ (\E t \in Threads, ty \in ImageType : PushCall(t, ty)) /\ Idle
    \/ (\E t \in Threads, op \in LockPcs \ {"push_lock"} : Call(t, op)) /\ Idle
    \/ (\E t \in Threads : OutDestroy(t)) /\ Idle
    \/ (\E t \in Threads : ThreadStep(t)) /\ Idle
    \/ Destroy /\ Idle

LifetimeSpec == Init /\ [][LifetimeNext]_vars

\* ======================================================== properties
\* The positions at which a worker holds a popped task
Busy == {"init", "preview", "raw"}

Held(w) == wpc[w] \in Busy

\* The number of outstanding tasks (queued, or held by a worker) that
\* perform stage s for index i
Outstanding(i, s) ==
    Cardinality({k \in DOMAIN taskQueue :
                    /\ taskQueue[k].imageIndex = i
                    /\ s \in Stages(taskQueue[k].loadType)})
    + Cardinality({w \in Workers :
                    /\ Held(w)
                    /\ wtask[w].imageIndex = i
                    /\ s \in Stages(wtask[w].loadType)})

\* The entry of index i as the consumer reads it
Entry(i) == At(entries, i)

\* Nothing has been requested or loaded for index i
Fresh(i) ==
    /\ ~Entry(i).previewRequested
    /\ ~Entry(i).previewLoaded
    /\ ~Entry(i).rawRequested
    /\ ~Entry(i).rawLoaded

\* The number of tasks of load type lt pushed for index i so far
CountIssued(i, lt) == Cardinality({k \in DOMAIN issued[i] : issued[i][k] = lt})

\* C1: for every index there is at any time at most one outstanding task
\* (queued or being executed) that performs the preview decode, and at most
\* one that performs the full decode.
C1_AtMostOneOutstanding ==
    \A i \in Idx : \A s \in ImageType : Outstanding(i, s) <= 1

\* A PreviewOnly task of an index is being executed while the RawOnly task of
\* the same index is queued, and the consumer has just asked again in vain.
C1_Witness ==
    \E i \in Idx :
        /\ \E w \in Workers :
              Held(w) /\ wtask[w].imageIndex = i /\ wtask[w].loadType = PreviewOnly
        /\ \E k \in DOMAIN taskQueue :
              taskQueue[k].imageIndex = i /\ taskQueue[k].loadType = RawOnly
        /\ ret = "nullptr"
        /\ pushes = 0

\* A tryGetThumbnail step on an index whose preview is not loaded
C2_ThumbnailStep(i, p) ==
    TryGetThumbnail(i, p) /\ ~Entry(i).previewLoaded =>
        /\ ret' = "nullptr"
        /\ IF Entry(i).previewRequested
           THEN /\ taskQueue' = taskQueue
                /\ entries' = entries
                /\ pushes' = 0
           ELSE /\ taskQueue' = Append(taskQueue, LoadTask(i, p, PreviewOnly))
                /\ entries'[i].previewRequested
                /\ pushes' = 1

\* C2: the first tryGetThumbnail(i, p) pushes one PreviewOnly task of index i
\* and sets previewRequested; every later call before the preview is loaded
\* pushes nothing; all of them return nullptr; in total one PreviewOnly task
\* is pushed for i.
C2_ThumbnailDedup ==
    /\ [][\A i \in Idx, p \in Paths : C2_ThumbnailStep(i, p)]_vars
    /\ [](\A i \in Idx : CountIssued(i, PreviewOnly) <= 1)

\* A second tryGetThumbnail has returned nullptr without pushing: nothing but
\* one PreviewOnly task was ever pushed, so the call that pushed nothing was a
\* tryGetThumbnail of the index already requested.
C2_Witness ==
    \E i \in Idx :
        /\ issued[i] = <<PreviewOnly>>
        /\ NumPushed(issued) = 1
        /\ ~entries[i].previewLoaded
        /\ ret = "nullptr"
        /\ pushes = 0

\* A tryGetRaw step on a fresh index; a step that pushes a Both task
C3_RawStep(i, p) ==
    TryGetRaw(i, p) /\ Fresh(i) =>
        /\ taskQueue' = Append(taskQueue, LoadTask(i, p, Both))
        /\ entries'[i].previewRequested
        /\ entries'[i].rawRequested
        /\ pushes' = 1

\* Every Both task a step pushes is for an index that was fresh before it
C3_BothOnlyFresh ==
    \A k \in DOMAIN taskQueue' :
        k > Len(taskQueue) /\ taskQueue'[k].loadType = Both =>
            Fresh(taskQueue'[k].imageIndex)

\* C3: tryGetRaw on an index with nothing requested or loaded pushes exactly
\* one task, of type Both, and sets previewRequested and rawRequested in that
\* call; no step pushes a Both task for an index in any other state.
C3_BothFromFresh ==
    /\ [][\A i \in Idx, p \in Paths : C3_RawStep(i, p)]_vars
    /\ [][C3_BothOnlyFresh]_vars
    /\ [](\A i \in Idx : Entry(i).rawRequested => Entry(i).previewRequested)

\* tryGetRaw has just pushed the Both task of an index
C3_Witness ==
    \E i \in Idx :
        /\ issued[i] = <<Both>>
        /\ taskQueue # <<>>
        /\ taskQueue[Len(taskQueue)].loadType = Both
        /\ taskQueue[Len(taskQueue)].imageIndex = i
        /\ entries[i].previewRequested /\ entries[i].rawRequested
        /\ ret = "nullptr"
        /\ pushes = 1

\* A tryGetRaw step on an index whose raw is not loaded
C4_RawStep(i, p) ==
    TryGetRaw(i, p) /\ ~Entry(i).rawLoaded =>
        /\ ret' = "nullptr"
        /\ IF Entry(i).rawRequested
           THEN /\ taskQueue' = taskQueue
                /\ entries' = entries
                /\ pushes' = 0
           ELSE Entry(i).previewRequested \/ Entry(i).previewLoaded =>
                /\ taskQueue' = Append(taskQueue, LoadTask(i, p, RawOnly))
                /\ entries'[i] = [Entry(i) EXCEPT !.rawRequested = TRUE]
                /\ pushes' = 1

\* C4: tryGetRaw on an index whose raw is neither loaded nor requested but
\* whose preview is requested or loaded pushes exactly one RawOnly task, sets
\* rawRequested and leaves previewRequested and previewLoaded; every further
\* tryGetRaw before the raw is loaded pushes nothing and returns nullptr.
C4_RawOnlyAfterPreview ==
    /\ [][\A i \in Idx, p \in Paths : C4_RawStep(i, p)]_vars
    /\ [](\A i \in Idx : CountIssued(i, RawOnly) <= 1)

\* A RawOnly task was pushed after the preview was loaded, and a further
\* tryGetRaw has returned nullptr without pushing
C4_Witness ==
    \E i \in Idx :
        /\ issued[i] = <<PreviewOnly, RawOnly>>
        /\ NumPushed(issued) = 2
        /\ entries[i].previewLoaded
        /\ ~entries[i].rawLoaded
        /\ ret = "nullptr"
        /\ pushes = 0
        /\ \E w \in Workers : wpc[w] = "raw" /\ wtask[w].imageIndex = i

\* A Preview result of index i is in the results queue before position k
PreviewBefore(i, k) ==
    \E j \in 1 .. (k - 1) :
        resultsQueue[j].imageIndex = i /\ resultsQueue[j].type = Preview

\* The task pushed for index i is a Both task
OnlyBoth(i) == issued[i] = <<Both>>

\* C5: a worker pushes the Preview result of a Both task before it starts the
\* full decode, the Preview result precedes the Raw result of that task in
\* the results queue and update() applies it first: for an index whose only
\* task is a Both task, rawLoaded is never true while previewLoaded is false.
C5_PreviewBeforeRaw ==
    /\ \A w \in Workers :
          wpc[w] = "raw" /\ wtask[w].loadType = Both =>
              \/ PreviewBefore(wtask[w].imageIndex, Len(resultsQueue) + 1)
              \/ Preview \in applied[wtask[w].imageIndex]
    /\ \A k \in DOMAIN resultsQueue :
          resultsQueue[k].type = Raw /\ OnlyBoth(resultsQueue[k].imageIndex) =>
              \/ PreviewBefore(resultsQueue[k].imageIndex, k)
              \/ Preview \in applied[resultsQueue[k].imageIndex]
    /\ \A i \in Idx :
          OnlyBoth(i) /\ Entry(i).rawLoaded => Entry(i).previewLoaded

\* The preview of a Both task is loaded while its worker is still in the full
\* decode
C5_Witness ==
    \E i \in Idx :
        /\ OnlyBoth(i)
        /\ entries[i].previewLoaded
        /\ ~entries[i].rawLoaded
        /\ \E w \in Workers :
              wpc[w] = "raw" /\ wtask[w].imageIndex = i /\ wtask[w].loadType = Both

\* isFullyLoaded over a step, and the value a call returns
C6_FullyLoadedStep(i) ==
    /\ IsFullyLoaded(i) => IsFullyLoaded(i)'
    /\ IsFullyLoadedCall(i) =>
          ret' = IF applied[i] = ImageType THEN "true" ELSE "false"

\* C6: isFullyLoaded(i) is false as long as update() has not applied both a
\* Preview and a Raw result of index i, true afterwards, and never goes back
\* to false.
C6_FullyLoaded ==
    /\ [](\A i \in Idx : IsFullyLoaded(i) <=> applied[i] = ImageType)
    /\ [][\A i \in Idx : C6_FullyLoadedStep(i)]_vars

\* isFullyLoaded has returned true for an index whose preview and raw were
\* loaded by two tasks
C6_Witness ==
    /\ ret = "true"
    /\ \E i \in Idx : applied[i] = ImageType /\ issued[i] = <<PreviewOnly, RawOnly>>

\* What a tryGetThumbnail or tryGetRaw step returns and changes
C7_HandleStep(i, p) ==
    /\ TryGetThumbnail(i, p) =>
          /\ (ret' # "nullptr") <=> (Found(i) /\ entries[i].previewLoaded)
          /\ ret' # "nullptr" =>
                /\ ret' = "preview"
                /\ pushes' = 0
                /\ UNCHANGED <<entries, taskQueue, resultsQueue>>
    /\ TryGetRaw(i, p) =>
          /\ (ret' # "nullptr") <=> (Found(i) /\ entries[i].rawLoaded)
          /\ ret' # "nullptr" =>
                /\ ret' = "raw"
                /\ pushes' = 0
                /\ UNCHANGED <<entries, taskQueue, resultsQueue>>

\* C7: tryGetThumbnail returns a handle exactly when the entry exists with
\* previewLoaded, tryGetRaw exactly when rawLoaded; such a call pushes no
\* task and leaves the registry and both queues unchanged.
C7_HandleWhenLoaded ==
    [][\A i \in Idx, p \in Paths : C7_HandleStep(i, p)]_vars

\* tryGetThumbnail has returned the preview handle of an index whose raw is
\* requested and not loaded
C7_Witness ==
    /\ ret = "preview"
    /\ pushes = 0
    /\ \E i \in Idx :
          entries[i].previewLoaded /\ entries[i].rawRequested /\ ~entries[i].rawLoaded
    /\ \A i \in Idx : ~entries[i].rawLoaded

\* What the consumer can tell about a stage of an entry from its flags
\* (ImageEntry has a requested and a loaded flag per stage and nothing else)
StageState(entry, s) ==
    IF s = Preview
    THEN IF entry.previewLoaded THEN "Ready"
         ELSE IF entry.previewRequested THEN "Requested" ELSE "NotRequested"
    ELSE IF entry.rawLoaded THEN "Ready"
         ELSE IF entry.rawRequested THEN "Requested" ELSE "NotRequested"

\* The stages given up, as update() leaves them when it returns
C8_FailedAfterUpdate ==
    UpdateReturn =>
        \A i \in Idx : \A s \in failed[i] :
            StageState(Entry(i)', s) \notin {"Requested", "NotRequested"}

\* C8: once a worker has given up a stage of an index and update() has run,
\* the stage is in a Failed state the consumer can tell from Requested, and
\* isFullyLoaded of the index stays false.
C8_FailedIsDistinct ==
    /\ [][C8_FailedAfterUpdate]_vars
    /\ [](\A i \in Idx : failed[i] # {} => ~IsFullyLoaded(i))

\* stop() has returned, or start() was never called
Stopped == ~running /\ cpc # "stop"

\* q is an initial part of r
IsPrefix(q, r) == Len(q) <= Len(r) /\ \A k \in DOMAIN q : q[k] = r[k]

\* C9: stop() terminates: once it has set running_ to false every worker
\* leaves its loop and is joined, also with tasks left in the task queue;
\* after stop() has returned no worker pops or executes a task and the tasks
\* left stay in the queue.
C9_StopTerminates ==
    /\ (cpc = "stop") ~> (cpc = "idle" /\ \A w \in Workers : wpc[w] = "none")
    /\ [](Stopped => \A w \in Workers : wpc[w] = "none")
    /\ [][Stopped => IsPrefix(taskQueue, taskQueue')]_vars

\* stop() has returned after the workers have popped a task, and tasks are
\* left in the task queue
C9_Witness ==
    /\ Stopped
    /\ cpc = "idle"
    /\ taskQueue # <<>>
    /\ \E i \in Idx : popped[i] # {}
    /\ \A w \in Workers : wpc[w] = "none"

\* The task of load type lt of index i is in the task queue
InQueue(i, lt) ==
    \E k \in DOMAIN taskQueue :
        taskQueue[k].imageIndex = i /\ taskQueue[k].loadType = lt

\* A worker has popped the task of load type lt of index i and is done with it
Executed(i, lt) ==
    /\ lt \in popped[i]
    /\ ~InQueue(i, lt)
    /\ \A w \in Workers :
          Held(w) => ~(wtask[w].imageIndex = i /\ wtask[w].loadType = lt)

\* C10: while the pool is running and the workers are scheduled fairly, every
\* task pushed to the task queue is eventually popped and executed by a
\* worker; no task is dropped.
C10_TaskEventuallyExecuted ==
    /\ \A i \in Idx : \A lt \in LoadType :
          (running /\ InQueue(i, lt)) ~> (~running \/ Executed(i, lt))
    /\ [](\A i \in Idx : \A k \in DOMAIN issued[i] :
             InQueue(i, issued[i][k]) \/ issued[i][k] \in popped[i])

\* The pool is running, a task has been executed and a task pushed is waiting
\* in the queue
C10_Witness ==
    /\ running
    /\ taskQueue # <<>>
    /\ \E i \in Idx : \E lt \in LoadType : Executed(i, lt)

\* What a step may do to the loaded flags and the textures of index i
C14_LoadedStep(i) ==
    /\ Entry(i).previewLoaded => Entry(i)'.previewLoaded
    /\ Entry(i).rawLoaded => Entry(i)'.rawLoaded
    /\ (Entry(i)'.previewLoaded # Entry(i).previewLoaded
        \/ Entry(i)'.preview # Entry(i).preview) =>
          /\ UpdatePop
          /\ Front(resultsQueue).imageIndex = i
          /\ Front(resultsQueue).type = Preview
    /\ (Entry(i)'.rawLoaded # Entry(i).rawLoaded
        \/ Entry(i)'.raw # Entry(i).raw) =>
          /\ UpdatePop
          /\ Front(resultsQueue).imageIndex = i
          /\ Front(resultsQueue).type = Raw

\* C14: previewLoaded (rawLoaded) of an index becomes true only in update(),
\* while it applies a popped result of that index and of type Preview (Raw);
\* no accessor and no worker step changes a loaded flag or a stored texture.
C14_LoadedOnlyByUpdate ==
    [][\A i \in Idx : C14_LoadedStep(i)]_vars

\* update() has applied the Preview result of an index and the Raw result of
\* the same index is the next in the results queue
C14_Witness ==
    /\ cpc = "update"
    /\ resultsQueue # <<>>
    /\ \E i \in Idx :
          /\ applied[i] = {Preview}
          /\ entries[i].previewLoaded
          /\ ~entries[i].rawLoaded
          /\ Front(resultsQueue).imageIndex = i
          /\ Front(resultsQueue).type = Raw

\* A task of index i doing stage s is among those the step has pushed
PushedNow(i, s) ==
    \E k \in DOMAIN taskQueue' :
        /\ k > Len(taskQueue)
        /\ taskQueue'[k].imageIndex = i
        /\ s \in Stages(taskQueue'[k].loadType)

\* The step is a call of the consumer thread that can request a load
RequestingCall ==
    \/ \E i \in Idx, p \in Paths : TryGetThumbnail(i, p) \/ TryGetRaw(i, p)
    \/ \E images \in ImageLists : RequestAllThumbnails(images)

\* A task doing stage s of index i has been pushed
EverPushed(i, s) == \E k \in DOMAIN issued[i] : s \in Stages(issued[i][k])

C15_WorkerFrame(w) ==
    WorkerStep(w) =>
        /\ entries' = entries
        /\ taskQueue' = taskQueue \/ taskQueue' = Tail(taskQueue)
        /\ IsPrefix(resultsQueue, resultsQueue')

C15_RequestedStep(i) ==
    /\ ~Entry(i).previewRequested /\ Entry(i)'.previewRequested =>
          RequestingCall /\ PushedNow(i, Preview)
    /\ ~Entry(i).rawRequested /\ Entry(i)'.rawRequested =>
          RequestingCall /\ PushedNow(i, Raw)

\* C15: a worker step leaves the registry unchanged, it only pops from the
\* task queue and pushes to the results queue; a requested flag becomes true
\* only in a call of the consumer that pushes the task of that stage in the
\* same call, so the flag is set exactly when its task has been pushed.
C15_RegistryOnlyByConsumer ==
    /\ [][\A w \in Workers : C15_WorkerFrame(w)]_vars
    /\ [][\A i \in Idx : C15_RequestedStep(i)]_vars
    /\ [](\A i \in Idx :
             /\ Entry(i).previewRequested <=> EverPushed(i, Preview)
             /\ Entry(i).rawRequested <=> EverPushed(i, Raw))

\* requestAllThumbnails has requested both previews; a worker decodes one of
\* them while the other task is queued
C15_Witness ==
    /\ \A i \in Idx : issued[i] = <<PreviewOnly>> /\ entries[i].previewRequested
    /\ pushes = 2
    /\ Len(taskQueue) = 1
    /\ \E w \in Workers : wpc[w] = "preview"

\* The indices of images whose preview is neither requested nor loaded, in
\* increasing order
C16_Needed(images) ==
    SelectSeq([k \in 1 .. Len(images) |-> k - 1],
              LAMBDA i : ~(Entry(i).previewRequested \/ Entry(i).previewLoaded))

C16_RequestStep(images) ==
    RequestAllThumbnails(images) =>
        LET need == C16_Needed(images)
        IN /\ taskQueue' = taskQueue \o
                  [k \in 1 .. Len(need) |->
                      LoadTask(need[k], images[need[k] + 1], PreviewOnly)]
           /\ pushes' = Len(need)
           /\ \A i \in Idx :
                 IF i < Len(images)
                 THEN Entry(i)'.previewRequested \/ Entry(i)'.previewLoaded
                 ELSE entries'[i] = entries[i]
           /\ C16_Needed(images)' = <<>>

C16_ThumbnailAfter(i, p) ==
    TryGetThumbnail(i, p) /\ (Entry(i).previewRequested \/ Entry(i).previewLoaded) =>
        taskQueue' = taskQueue /\ pushes' = 0

\* C16: requestAllThumbnails(images) pushes one PreviewOnly task, in
\* increasing index order, for each index below images.size() whose preview
\* is neither requested nor loaded and nothing for the others; afterwards the
\* preview of every index in range is requested or loaded, so a second call
\* pushes nothing and neither does a later tryGetThumbnail.
C16_RequestAllOnce ==
    /\ [][\A images \in ImageLists : C16_RequestStep(images)]_vars
    /\ [][\A i \in Idx, p \in Paths : C16_ThumbnailAfter(i, p)]_vars

\* requestAllThumbnails has pushed the task of index 1 only, the preview of
\* index 0 having been requested by tryGetThumbnail before
C16_Witness ==
    /\ ret = "void"
    /\ pushes = 1
    /\ Len(taskQueue) = 2
    /\ taskQueue[1].imageIndex = 0
    /\ taskQueue[2].imageIndex = 1
    /\ \A i \in Idx : issued[i] = <<PreviewOnly>>

\* A result of type s of index i is in the results queue
ResultQueued(i, s) ==
    \E k \in DOMAIN resultsQueue :
        resultsQueue[k].imageIndex = i /\ resultsQueue[k].type = s

\* The step in which a worker gives up a stage
C17_FailStep ==
    failed' # failed =>
        /\ resultsQueue' = resultsQueue
        /\ taskQueue' = taskQueue
        /\ \E w \in Workers :
              /\ Held(w)
              /\ wpc'[w] = "check"
              /\ \A v \in Workers \ {w} : wpc'[v] = wpc[v]

\* C17: when decoding fails the worker does not terminate and does not push
\* the task again: it pushes no result for the failed stage (none at all when
\* the file cannot be opened or unpacked, only the Preview result when the
\* full decode of a Both task fails) and goes back to take the next task.
C17_FailureSkipsTask ==
    /\ [][C17_FailStep]_vars
    /\ [](\A i \in Idx : \A s \in failed[i] :
             /\ ~ResultQueued(i, s)
             /\ s \notin applied[i]
             /\ Outstanding(i, s) = 0)
    /\ [](\A i \in Idx :
             OnlyBoth(i) /\ failed[i] = {Raw} =>
                 ResultQueued(i, Preview) \/ Preview \in applied[i])

\* The only worker thread gave up a task of one index and holds the task of
\* another index
C17_Witness ==
    /\ running
    /\ wpc[1] \in Busy
    /\ \A w \in Workers \ {1} : wpc[w] = "none"
    /\ \E i \in Idx :
          /\ failed[i] # {}
          /\ wtask[1].imageIndex # i

\* Every result in the results queue, and every task queued or held, is of
\* an index that has an entry: nothing removes an entry from entries_, so
\* update() never meets a result of an index without one.
ResultsHaveEntries ==
    /\ [](\A k \in DOMAIN resultsQueue : Found(resultsQueue[k].imageIndex))
    /\ [](\A k \in DOMAIN taskQueue : Found(taskQueue[k].imageIndex))
    /\ [](\A w \in Workers : Held(w) => Found(wtask[w].imageIndex))
    /\ [][\A i \in Idx : Found(i) => Found(i)']_vars

\* No worker thread exists
NoThreads == \A w \in Workers : wpc[w] = "none"

C20_StopStep ==
    /\ StopBegin /\ NoThreads =>
          /\ UNCHANGED <<entries, taskQueue, resultsQueue, wpc>>
          /\ ~running'
    /\ StopJoin /\ NoThreads =>
          /\ UNCHANGED <<entries, taskQueue, resultsQueue, wpc, running>>
          /\ cpc' = "idle"

\* C20: stop() when start() was never called, or again after an earlier
\* stop() has joined the workers, returns without waiting for anything and
\* leaves the registry and both queues unchanged.
C20_StopWithoutThreads ==
    /\ [](cpc = "stop" /\ NoThreads => ENABLED StopJoin)
    /\ [][C20_StopStep]_vars

\* stop() is called again after the pool has run and an earlier stop() has
\* joined its threads
C20_Witness ==
    /\ cpc = "stop"
    /\ NoThreads
    /\ \E i \in Idx : popped[i] # {}
    /\ taskQueue # <<>>

\* ------------------------------------------- ConcurrentQueue claims
\* How often x occurs in the sequence q
CountIn(q, x) == Cardinality({k \in DOMAIN q : q[k] = x})

\* The tags of the items in the queue that no tryPop has moved out
QueuedTags ==
    LET live == SelectSeq(queue, LAMBDA r : Buffers(r) # {})
    IN [k \in DOMAIN live |-> live[k].tag]

Tags == 1 .. MaxItems

\* C11: with the threads calling push and tryPop concurrently, every pushed
\* item is returned by at most one tryPop and none is lost: the items pushed
\* are the items still queued plus the items tryPop has returned.
C11_NoLossNoDuplicate ==
    \A n \in Tags :
        /\ CountIn(pushOrder, n) = CountIn(QueuedTags, n) + CountIn(returned, n)
        /\ CountIn(returned, n) <= 1
        /\ Cardinality({t \in Threads : out[t].tag = n}) <= 1

\* One thread is inside tryPop with two items queued while another thread
\* waits for the mutex to pop as well
C11_Witness ==
    \E t1, t2 \in Threads :
        /\ t1 # t2
        /\ tpc[t1] = "pop_move"
        /\ tpc[t2] = "pop_lock"
        /\ Len(queue) = 2

\* The value a tryPop that found the queue empty returns
PopFailed == Ret("tryPop", FALSE, 0)

\* What the steps of tryPop of thread t do to the queue
C12_PopStep(t) ==
    /\ PopTest(t) /\ tret'[t] = PopFailed => queue = <<>> /\ queue' = queue
    /\ PopTest(t) /\ queue = <<>> => tret'[t] = PopFailed
    /\ PopMove(t) =>
          /\ Len(returned) < Len(pushOrder)
          /\ out'[t].tag = pushOrder[Len(returned) + 1]
          /\ Buffers(out'[t]) = {out'[t].tag}
    /\ PopPop(t) => queue' = Tail(queue) /\ tret'[t].ok
    /\ tret[t] = PopFailed => queue' = queue

\* C12: tryPop returns false and removes nothing when the queue is empty;
\* otherwise it removes and returns the item whose push completed earliest
\* among those in the queue: the items come out in the order of their pushes.
C12_StrictFifo ==
    /\ [](returned \o QueuedTags = pushOrder)
    /\ [][\A t \in Threads : C12_PopStep(t)]_vars

\* The item built second was pushed first and tryPop has returned it, while
\* the item built first is still queued
C12_Witness ==
    /\ pushOrder = <<2, 1>>
    /\ returned = <<2>>
    /\ QueuedTags = <<1>>

\* A thread is inside an operation of the queue
InOperation(t) == tpc[t] # "idle"

\* C13: every operation of the queue completes under fair scheduling: a push
\* that holds the mutex can always append, the mutex is held only inside the
\* body of an operation and is released when the operation returns, and
\* whenever a thread is inside an operation some thread can take a step.
C13_OperationsComplete ==
    /\ \A t \in Threads : InOperation(t) ~> ~InOperation(t)
    /\ [](\A t \in Threads : tpc[t] = "push_body" => ENABLED PushBody(t))
    /\ [](\A t \in Threads : t \in mutex <=> tpc[t] \notin (LockPcs \cup {"idle"}))
    /\ []((\E t \in Threads : InOperation(t)) =>
              \E t \in Threads : ENABLED ThreadStep(t))

\* A push waits for the mutex, which a thread reading the size of the
\* non-empty queue holds
C13_Witness ==
    \E t1, t2 \in Threads :
        /\ tpc[t1] = "size_read"
        /\ mutex = {t1}
        /\ tpc[t2] = "push_lock"
        /\ Len(queue) = 1

\* The objects that refer to buffer b
Owners(b) ==
    Cardinality({t \in Threads : b \in Buffers(local[t])})
    + Cardinality({t \in Threads : b \in Buffers(value[t])})
    + Cardinality({t \in Threads : b \in Buffers(out[t])})
    + Cardinality({k \in DOMAIN queue : b \in Buffers(queue[k])})

\* C19: every decoded buffer has exactly one owner as its LoadResult moves
\* from the thread that built it through the queue to the thread that pops
\* it: a moved-from LoadResult holds null pointers, no two objects refer to
\* the same buffer, and a buffer is freed once, by its last owner.
C19_SingleOwner ==
    /\ \A b \in Tags :
          IF b <= nextTag THEN Owners(b) + freed[b] = 1
          ELSE Owners(b) = 0 /\ freed[b] = 0
    /\ \A t \in Threads :
          /\ Buffers(local[t]) = {}
          /\ tpc[t] = "unlock" => Buffers(value[t]) = {}
          /\ tpc[t] = "pop_pop" => Buffers(Front(queue)) = {}

\* A thread has popped the raw image 2 into its LoadResult, which released
\* the pixels 1 it held before
C19_Witness ==
    \E t \in Threads :
        /\ out[t] = NewResult(2, Raw)
        /\ freed[1] = 1
        /\ freed[2] = 0

\* ------------------------------------------------------ worker pool claims
\* C21 as stated: once stop() has set running_ to false no worker pops a
\* task from the task queue.
C21_NoPopAfterFlag == [][~running => IsPrefix(taskQueue, taskQueue')]_vars

\* C21: once stop() has set running_ to false no worker begins another
\* iteration of its loop: only a worker that had passed its while (running_)
\* test before the flag was set, and stands at tryPop, still pops a task, and
\* it pops no second one.
C21_OnePopAfterFlag ==
    [][~running =>
         /\ \A w \in Workers : wpc'[w] = "pop" => wpc[w] = "pop"
         /\ ~IsPrefix(taskQueue, taskQueue') =>
               \E w \in Workers :
                   /\ wpc[w] = "pop"
                   /\ wpc'[w] = "init"
                   /\ wtask'[w] = Front(taskQueue)
                   /\ taskQueue' = Pop(taskQueue)]_vars

\* stop() has set the flag while a worker stands at tryPop with a task in
\* the task queue
C21_Witness ==
    /\ ~running
    /\ cpc = "stop"
    /\ taskQueue # <<>>
    /\ \E w \in Workers : wpc[w] = "pop"

\* C22: the pool dequeues the tasks in exactly the order in which they were
\* pushed: the k-th task a worker receives is the k-th task pushed, and the
\* tasks not yet received wait in the task queue in the order of their push
\* (none is reordered, dropped or preferred).
C22_PoolFifo ==
    /\ IsPrefix(popOrder, taskOrder)
    /\ taskOrder = popOrder \o taskQueue

\* Two tasks have been pushed and both are held by workers at once, the
\* one pushed first having been popped first
C22_Witness ==
    /\ Len(popOrder) = 2
    /\ popOrder = taskOrder
    /\ \E w, x \in Workers :
          /\ w # x
          /\ wtask[w] = popOrder[1] /\ Held(w)
          /\ wtask[x] = popOrder[2] /\ wpc[x] = "init"

\* ------------------------------------------------- consumer thread claims
\* C23: no operation of the consumer thread waits for a worker or for data.
\* tryGetThumbnail, tryGetRaw, isFullyLoaded and requestAllThumbnails can be
\* called and return in one step whatever the workers do; update() can take
\* its next step in every state, returns at the first tryPop that reports
\* empty without touching the registry, and terminates.
C23_ConsumerNeverWaits ==
    /\ (cpc = "update") ~> (cpc = "idle")
    /\ [](cpc = "idle" => \A i \in Idx : ENABLED IsFullyLoadedCall(i))
    /\ [](cpc = "idle" /\ NumPushed(issued) < MaxTasks =>
            \A i \in Idx, p \in Paths :
                ENABLED TryGetThumbnail(i, p) /\ ENABLED TryGetRaw(i, p))
    /\ [](cpc = "idle" /\ NumPushed(issued) = 0 =>
            \A images \in ImageLists : ENABLED RequestAllThumbnails(images))
    /\ [](cpc \in {"idle", "update"} =>
            IF QEmpty(resultsQueue) THEN ENABLED UpdateReturn
                                    ELSE ENABLED UpdatePop)
    /\ [][cpc = "idle" /\ cpc' # "idle" => UpdatePop \/ StopBegin]_vars
    /\ [][cpc = "update" /\ QEmpty(resultsQueue) /\ cpc' # cpc =>
            cpc' = "idle" /\ ret' = "void" /\ entries' = entries]_vars

\* update() has applied a result and finds the results queue empty while a
\* worker is still busy with a task
C23_Witness ==
    /\ cpc = "update"
    /\ QEmpty(resultsQueue)
    /\ \E i \in Idx : applied[i] # {}
    /\ \E w \in Workers : Held(w)

\* The preview of index i is loaded but holds no texture: the file had no
\* embedded JPEG
EmptyPreview(i) == Found(i) /\ entries[i].previewLoaded /\ ~entries[i].preview

\* A worker leaves the preview stage: whether or not the file has a
\* thumbnail it pushes one Preview result for its task, records no failure,
\* and goes on with the full stage when the task is Both
C24_PreviewStep(w) ==
    wpc[w] = "preview" /\ wpc'[w] # "preview" =>
        /\ \E pix \in BOOLEAN :
              resultsQueue' =
                  Append(resultsQueue,
                         LoadResult(wtask[w].imageIndex, Preview, pix, FALSE))
        /\ failed' = failed
        /\ wpc'[w] = IF wtask[w].loadType = Both THEN "raw" ELSE "check"
        /\ wtask[w].loadType = Both => wtask'[w] = wtask[w]

\* update() applies a Preview result with an empty buffer: the preview is
\* loaded, without a texture
C24_ApplyStep ==
    UpdatePop /\ Front(resultsQueue).type = Preview /\ ~Front(resultsQueue).pixels =>
        LET i == Front(resultsQueue).imageIndex
        IN /\ entries'[i].present
           /\ entries'[i].previewLoaded
           /\ ~entries'[i].preview

\* C24: a file that opens but has no embedded JPEG preview is a normal
\* outcome: the preview stage still pushes a Preview result, with an empty
\* buffer; update() marks previewLoaded; from then on tryGetThumbnail returns
\* the handle, which has no texture, and pushes nothing; and the full stage
\* of a Both task still runs.
C24_NoPreviewIsNormal ==
    /\ [][\A w \in Workers : C24_PreviewStep(w)]_vars
    /\ [][C24_ApplyStep]_vars
    /\ [][\A i \in Idx, p \in Paths :
            TryGetThumbnail(i, p) /\ EmptyPreview(i) =>
                /\ ret' = "preview"
                /\ pushes' = 0
                /\ taskQueue' = taskQueue
                /\ entries' = entries]_vars
    /\ [](\A i \in Idx : EmptyPreview(i) =>
            /\ Preview \in applied[i]
            /\ Preview \notin failed[i]
            /\ entries[i].previewRequested)

\* A Both task for a file without embedded preview has run both stages:
\* the preview is loaded without a texture, the raw image is loaded, and
\* tryGetThumbnail has returned the handle
C24_Witness ==
    \E i \in Idx :
        /\ issued[i] = <<Both>>
        /\ EmptyPreview(i)
        /\ entries[i].rawLoaded /\ entries[i].raw
        /\ ret = "preview"
        /\ pushes = 0

\* C26: if the preview (resp. the raw image) of index i has been requested,
\* the pool is running and scheduled fairly, no stage of the decode fails and
\* the consumer keeps calling update(), then eventually the preview (resp.
\* the raw image) is loaded, which is when tryGetThumbnail (resp. tryGetRaw)
\* returns the handle.
C26_EventuallyHandle ==
    /\ \A i \in Idx :
          (running /\ Entry(i).previewRequested) ~>
              (~running \/ Preview \in failed[i] \/ ThumbnailLoaded(i))
    /\ \A i \in Idx :
          (running /\ Entry(i).rawRequested) ~>
              (~running \/ Raw \in failed[i] \/ RawLoaded(i))

\* Both stages of an index were requested and are loaded while the pool is
\* running, nothing has failed, and tryGetRaw has returned the handle
C26_Witness ==
    /\ running
    /\ ret = "raw"
    /\ \E i \in Idx :
          /\ ThumbnailLoaded(i) /\ RawLoaded(i)
          /\ failed[i] = {}
          /\ applied[i] = {Preview, Raw}

\* What a step of worker w may do with its task: it receives one only from
\* tryPop while it holds none, keeps it through its stages (a Both task goes
\* from the preview stage to the full stage in the same worker), and every
\* result pushed is the result of the stage the pushing worker is at
C27_WorkerStep(w) ==
    /\ wtask'[w] # wtask[w] =>
          \/ wpc[w] = "pop" /\ wtask[w] = NoTask /\ wpc'[w] = "init"
          \/ Held(w) /\ wtask'[w] = NoTask /\ wpc'[w] = "check"
    /\ wpc[w] = "preview" /\ wtask[w].loadType = Both /\ wpc'[w] # "preview" =>
          wpc'[w] = "raw" /\ wtask'[w] = wtask[w]
    /\ wpc'[w] # wpc[w] /\ resultsQueue' # resultsQueue =>
          /\ wpc[w] \in {"preview", "raw"}
          /\ \E pix, img \in BOOLEAN :
                resultsQueue' =
                    Append(resultsQueue,
                           LoadResult(wtask[w].imageIndex,
                                      IF wpc[w] = "preview" THEN Preview ELSE Raw,
                                      pix, img))

\* C27: each worker holds at most one task at a time and finishes it, both
\* stages of a Both task included, before it pops the next one; no task is
\* held by two workers or waits in the queue while it is held, so the
\* Preview and the Raw result of one Both task come from the same worker.
C27_OneTaskPerWorker ==
    /\ [][\A w \in Workers : C27_WorkerStep(w)]_vars
    /\ [][Len(resultsQueue') > Len(resultsQueue) =>
            \E w \in Workers : wpc'[w] # wpc[w]]_vars
    /\ [](\A w \in Workers : Held(w) <=> wtask[w] # NoTask)
    /\ [](\A w \in Workers : Held(w) =>
            /\ ~InQueue(wtask[w].imageIndex, wtask[w].loadType)
            /\ \A x \in Workers \ {w} :
                  Held(x) =>
                      \/ wtask[x].imageIndex # wtask[w].imageIndex
                      \/ wtask[x].loadType # wtask[w].loadType)
    /\ [](\A w \in Workers : wpc[w] = "raw" => Raw \in Stages(wtask[w].loadType))

\* A worker is at the full stage of a Both task whose Preview result it has
\* pushed, while the other worker holds another task
C27_Witness ==
    \E w, x \in Workers :
        /\ w # x
        /\ wpc[w] = "raw"
        /\ wtask[w].loadType = Both
        /\ \E k \in DOMAIN resultsQueue :
              /\ resultsQueue[k].imageIndex = wtask[w].imageIndex
              /\ resultsQueue[k].type = Preview
        /\ Held(x)

\* C28: completion order is not tied to request order. A worker that holds
\* a task can take its next step whatever the other workers hold, so with
\* two workers the later-pushed task may finish first, and update() applies
\* the result at the front of the results queue whatever was requested
\* first; the witness is the state where that has happened for two tasks of
\* one index.
C28_NoCompletionOrder ==
    /\ [](\A w \in Workers : Held(w) => ENABLED WorkerStep(w))
    /\ [](cpc \in {"idle", "update"} /\ ~QEmpty(resultsQueue) => ENABLED UpdatePop)
    /\ [][UpdatePop =>
            LET result == Front(resultsQueue)
            IN applied'[result.imageIndex] =
                   applied[result.imageIndex] \cup {result.type}]_vars

\* PreviewOnly was pushed by tryGetThumbnail and then RawOnly by tryGetRaw
\* for one index; the raw image is loaded while the preview, whose task has
\* been popped and has not failed, is not
C28_Witness ==
    \E i \in Idx :
        /\ issued[i] = <<PreviewOnly, RawOnly>>
        /\ entries[i].rawLoaded
        /\ ~entries[i].previewLoaded
        /\ applied[i] = {Raw}
        /\ PreviewOnly \in popped[i]
        /\ failed[i] = {}

\* C30: in every reachable state and for every index, previewLoaded implies
\* previewRequested and rawLoaded implies rawRequested.
C30_LoadedImpliesRequested ==
    \A i \in Idx :
        /\ entries[i].previewLoaded => entries[i].present /\ entries[i].previewRequested
        /\ entries[i].rawLoaded => entries[i].present /\ entries[i].rawRequested

\* Both stages of an index requested by one Both task are loaded
C30_Witness ==
    \E i \in Idx :
        /\ issued[i] = <<Both>>
        /\ entries[i].previewLoaded /\ entries[i].previewRequested
        /\ entries[i].rawLoaded /\ entries[i].rawRequested

\* ------------------------------------------------------------ main() claims
\* C25 as stated: the first time an image is viewed with nothing requested
\* for it, the requests of the frame (tryGetThumbnail, then tryGetRaw, of the
\* current image) leave a single Both task pushed for it. At tryGetRaw,
\* pushes = 1 tells that tryGetThumbnail has just found no preview requested.
C25_FirstViewBoth ==
    [][mpc.at = "raw1" /\ mpc'.at # "raw1"
       /\ pushes = 1 /\ ~Entry(currentImageIndex).rawRequested =>
           issued'[currentImageIndex] = <<Both>>]_vars

\* C29: in the main loop that tracks requestedImageIndex, currentImageIndex
\* changes only at the assignment guarded by isFullyLoaded, to the requested
\* index, which is fully loaded at that moment; while the requested image is
\* not fully loaded, and so when a stage of it has failed, currentImageIndex
\* keeps its value.
C29_CurrentOnlyFullyLoaded ==
    /\ [][currentImageIndex' # currentImageIndex =>
            /\ mpc.at = "assign"
            /\ currentImageIndex' = requestedImageIndex
            /\ IsFullyLoaded(requestedImageIndex)
            /\ ret' = "true"]_vars
    /\ [][~IsFullyLoaded(requestedImageIndex) =>
            currentImageIndex' = currentImageIndex]_vars
    /\ [][failed[requestedImageIndex] # {} =>
            currentImageIndex' = currentImageIndex]_vars

\* The second image was requested while the first was shown, and has just
\* become the current image at the guarded assignment
C29_Witness ==
    /\ currentImageIndex = 1
    /\ requestedImageIndex = 1
    /\ IsFullyLoaded(1)
    /\ mpc.at = "thumb2"
    /\ ret = "true"

\* ------------------------------------------------------- registry claims
\* The flags of an entry
Flags == {"previewRequested", "rawRequested", "previewLoaded", "rawLoaded"}

\* C31: for every index the four flags are monotone: no step, stop() and a
\* later start() included, resets one of them from true to false, and no
\* entry is removed from the registry.
C31_FlagsMonotone ==
    [][\A i \in Idx :
          /\ entries[i].present => entries'[i].present
          /\ \A f \in Flags : entries[i][f] => entries'[i][f]]_vars

\* stop() has returned and an index still has its entry with all four flags
C31_Witness ==
    /\ Stopped
    /\ cpc = "idle"
    /\ \A w \in Workers : wpc[w] = "none"
    /\ \E i \in Idx : entries[i].present /\ \A f \in Flags : entries[i][f]

\* The number of results of type s for index i in the results queue
NumQueued(i, s) ==
    Cardinality({k \in DOMAIN resultsQueue :
                    resultsQueue[k].imageIndex = i /\ resultsQueue[k].type = s})

\* The number of results of type s for index i pushed so far: a result
\* leaves the results queue only by being applied
NumProduced(i, s) == NumQueued(i, s) + (IF s \in applied[i] THEN 1 ELSE 0)

\* C32: over the whole lifetime of the database at most one Preview result
\* and at most one Raw result is pushed for an index, so update() never
\* applies a result to a stage that is already loaded, and never replaces a
\* stored texture.
C32_OneResultPerStage ==
    /\ [](\A i \in Idx : \A s \in ImageType : NumProduced(i, s) <= 1)
    /\ [][\A w \in Workers :
            wpc'[w] # wpc[w] /\ resultsQueue' # resultsQueue =>
                LET s == IF wpc[w] = "preview" THEN Preview ELSE Raw
                IN NumProduced(wtask[w].imageIndex, s) = 0]_vars
    /\ [][UpdatePop =>
            LET result == Front(resultsQueue)
                entry == entries[result.imageIndex]
            IN /\ result.type \notin applied[result.imageIndex]
               /\ result.type = Preview => ~entry.previewLoaded /\ ~entry.preview
               /\ result.type = Raw => ~entry.rawLoaded /\ ~entry.raw]_vars

\* Two tasks have served one index, its Preview and its Raw result have been
\* pushed once each and applied, and nothing is left in either queue
C32_Witness ==
    /\ taskQueue = <<>>
    /\ resultsQueue = <<>>
    /\ \A w \in Workers : ~Held(w)
    /\ \E i \in Idx :
          /\ Len(issued[i]) = 2
          /\ applied[i] = {Preview, Raw}
          /\ entries[i].preview /\ entries[i].raw

\* ------------------------------------------------------- shutdown claims
\* A step of worker w that holds a task while running_ is false: it goes on
\* with the task as it would otherwise, pushes the result of its stage, and
\* leaves only through the loop test after the task
C33_StepDuringStop(w) ==
    ~running /\ Held(w) /\ wpc'[w] # wpc[w] =>
        /\ wpc'[w] \in {"preview", "raw", "check"}
        /\ wpc[w] = "init" =>
              \/ wpc'[w] = FirstStage(wtask[w].loadType) /\ wtask'[w] = wtask[w]
              \/ wpc'[w] = "check" /\ failed'[wtask[w].imageIndex] # {}
        /\ wpc[w] = "preview" =>
              /\ Len(resultsQueue') = Len(resultsQueue) + 1
              /\ resultsQueue'[Len(resultsQueue')].type = Preview
              /\ resultsQueue'[Len(resultsQueue')].imageIndex = wtask[w].imageIndex
              /\ wpc'[w] = IF wtask[w].loadType = Both THEN "raw" ELSE "check"
        /\ wpc[w] = "raw" =>
              /\ wpc'[w] = "check"
              /\ \/ resultsQueue' = Append(resultsQueue, RawResult(wtask[w]))
                 \/ /\ resultsQueue' = resultsQueue
                    /\ Raw \in failed'[wtask[w].imageIndex]
                    /\ Raw \notin failed[wtask[w].imageIndex]

\* C33: a worker that is executing a task when stop() sets running_ to false
\* is not interrupted: it can always take its next step, completes the task
\* and pushes its results, and stop() does not return before; the results
\* stay in the results queue, from which only update() removes them, and a
\* later update() applies them.
C33_InFlightTaskCompletes ==
    /\ [][\A w \in Workers : C33_StepDuringStop(w)]_vars
    /\ [](\A w \in Workers : ~running /\ Held(w) =>
            /\ ENABLED WorkerStep(w)
            /\ cpc = "stop" => ~ENABLED StopJoin)
    /\ [][~running /\ ~IsPrefix(resultsQueue, resultsQueue') =>
            UpdatePop /\ resultsQueue' = Pop(resultsQueue)]_vars
    /\ [](Stopped /\ cpc = "idle" /\ ~QEmpty(resultsQueue) => ENABLED UpdatePop)
    /\ [][Stopped /\ UpdatePop =>
            LET result == Front(resultsQueue)
            IN /\ result.type = Preview => entries'[result.imageIndex].previewLoaded
               /\ result.type = Raw => entries'[result.imageIndex].rawLoaded]_vars

\* stop() has set the flag and waits while a worker is at the full stage of
\* a Both task whose Preview result is in the results queue
C33_Witness ==
    /\ ~running
    /\ cpc = "stop"
    /\ \E w \in Workers :
          /\ wpc[w] = "raw"
          /\ wtask[w].loadType = Both
          /\ ResultQueued(wtask[w].imageIndex, Preview)

\* The entry of the index of result r exists and has the requested flag of
\* the result's type
HasRequestedEntry(r) ==
    /\ Found(r.imageIndex)
    /\ r.type = Preview => entries[r.imageIndex].previewRequested
    /\ r.type = Raw => entries[r.imageIndex].rawRequested

\* C34: in every reachable state each LoadResult in the results queue has an
\* index whose registry entry exists with the matching requested flag true,
\* so the entries_[imageIndex] lookup of update() never creates an entry.
C34_ResultsHaveRequestedEntries ==
    /\ [](\A k \in DOMAIN resultsQueue : HasRequestedEntry(resultsQueue[k]))
    /\ [][UpdatePop =>
            /\ HasRequestedEntry(Front(resultsQueue))
            /\ \A i \in Idx : entries'[i].present = entries[i].present]_vars

\* The Preview result of one index waits in the results queue behind the Raw
\* result of another, both stages having been requested
C34_Witness ==
    /\ Len(resultsQueue) = 2
    /\ resultsQueue[1].type = Raw
    /\ resultsQueue[2].type = Preview
    /\ resultsQueue[1].imageIndex # resultsQueue[2].imageIndex
    /\ \A k \in DOMAIN resultsQueue : HasRequestedEntry(resultsQueue[k])

\* ----------------------------------------------------- LoadResult claims
\* The database has been destroyed
Destroyed == \A t \in Threads : tpc[t] = "done"

\* The step that frees buffer b is one of: the move assignment of tryPop
\* overwrites the LoadResult that holds it (update()'s reused local result),
\* that LoadResult is destroyed when update() returns, or the results queue
\* is destroyed with the buffer still in it
C35_FreeStep(b) ==
    freed'[b] # freed[b] =>
        /\ freed[b] = 0
        /\ freed'[b] = 1
        /\ \/ \E t \in Threads :
                /\ b \in Buffers(out[t])
                /\ \/ tpc[t] = "pop_move" /\ tpc'[t] = "pop_pop"
                   \/ tpc[t] = "idle" /\ out'[t] = NullResult
           \/ /\ \E k \in DOMAIN queue : b \in Buffers(queue[k])
              /\ Destroyed'

\* C35: every buffer a worker has produced, the raw image of a Raw result in
\* particular, is freed exactly once: never twice, only by the LoadResult
\* that owns it, and when the database has been destroyed none is left.
C35_FreedExactlyOnce ==
    /\ [](\A b \in Tags :
            /\ freed[b] <= 1
            /\ b <= nextTag => (freed[b] = 1 <=> Owners(b) = 0)
            /\ b > nextTag => freed[b] = 0)
    /\ [](Destroyed => \A b \in Tags : b <= nextTag => freed[b] = 1)
    /\ [][\A b \in Tags : C35_FreeStep(b)]_vars

\* The database was destroyed with the second result still in the results
\* queue after the first had been popped, and both buffers have been freed
C35_Witness ==
    /\ Destroyed
    /\ Len(pushOrder) = 2
    /\ returned = <<pushOrder[1]>>
    /\ \A b \in Tags : b <= nextTag => freed[b] = 1

\* ----------------------------------------------------- frame claims
\* C36: applying a Preview result for index i in update() changes only the
\* preview texture and previewLoaded of entry i, and applying a Raw result
\* only its raw texture and rawLoaded; the other fields of entry i, every
\* other entry and the task queue stay as they are.
C36_ApplyFrame ==
    [][UpdatePop =>
         LET result == Front(resultsQueue)
             i == result.imageIndex
         IN /\ \A j \in Idx \ {i} : entries'[j] = entries[j]
            /\ taskQueue' = taskQueue
            /\ entries'[i].present = entries[i].present
            /\ entries'[i].previewRequested = entries[i].previewRequested
            /\ entries'[i].rawRequested = entries[i].rawRequested
            /\ IF result.type = Preview
               THEN /\ entries'[i].previewLoaded
                    /\ entries'[i].preview = result.pixels
                    /\ entries'[i].raw = entries[i].raw
                    /\ entries'[i].rawLoaded = entries[i].rawLoaded
               ELSE /\ entries'[i].rawLoaded
                    /\ entries'[i].raw = result.rawImage
                    /\ entries'[i].preview = entries[i].preview
                    /\ entries'[i].previewLoaded = entries[i].previewLoaded]_vars

\* update() has applied the Preview result of an index whose raw image is
\* requested and not loaded, while another index has an entry and a task
\* waits in the task queue
C36_Witness ==
    /\ cpc = "update"
    /\ taskQueue # <<>>
    /\ \E i, j \in Idx :
          /\ i # j
          /\ applied[i] = {Preview}
          /\ entries[i].previewLoaded
          /\ entries[i].rawRequested /\ ~entries[i].rawLoaded
          /\ entries[j].present

\* A step in which a call of the consumer thread returns a bool: only
\* isFullyLoaded does
ReturnsBool == cpc = "idle" /\ ret' \in {"true", "false"} /\ ret' # ret

\* C37: isFullyLoaded(i) is a pure query: for an index without registry
\* entry it returns false and creates none, and in every state it pushes no
\* task and leaves the entries with all their flags and both queues as they
\* are.
C37_IsFullyLoadedPure ==
    /\ [][(ReturnsBool \/ \E i \in Idx : IsFullyLoadedCall(i)) =>
            /\ entries' = entries
            /\ taskQueue' = taskQueue
            /\ resultsQueue' = resultsQueue
            /\ issued' = issued
            /\ pushes' = 0]_vars
    /\ [][\A i \in Idx : IsFullyLoadedCall(i) /\ ~Found(i) =>
            ret' = "false" /\ ~(entries'[i].present)]_vars
    /\ [](cpc = "idle" => \A i \in Idx : ~Found(i) => ENABLED IsFullyLoadedCall(i))

\* isFullyLoaded has returned false in a running database whose registry is
\* still empty
C37_Witness ==
    /\ running
    /\ ret = "false"
    /\ pushes = 0
    /\ \A i \in Idx : ~Found(i)
    /\ taskQueue = <<>>

\* Whether stage s of index i has been requested
StageRequested(i, s) ==
    /\ Found(i)
    /\ IF s = Preview THEN entries[i].previewRequested ELSE entries[i].rawRequested

\* The tasks a step pushes onto the task queue
C38_Pushed ==
    IF Len(taskQueue') > Len(taskQueue)
    THEN {taskQueue'[k] : k \in Len(taskQueue) + 1 .. Len(taskQueue')}
    ELSE {}

\* The paths of the tasks pushed so far that cover stage s of index i
PathsOf(i, s) ==
    {taskOrder[k].imagePath :
        k \in {j \in DOMAIN taskOrder :
                  taskOrder[j].imageIndex = i /\ s \in Stages(taskOrder[j].loadType)}}

\* C38: deduplication is keyed on the image index alone: once a stage of
\* index i is requested, no call pushes another task for that stage, whatever
\* path it is given, so all tasks ever enqueued for the stage carry the one
\* path of its first request.
C38_DedupByIndex ==
    /\ [][\A i \in Idx, s \in {Preview, Raw} :
            StageRequested(i, s) =>
               \A t \in C38_Pushed :
                  ~(t.imageIndex = i /\ s \in Stages(t.loadType))]_vars
    /\ [](\A i \in Idx, s \in {Preview, Raw} :
            /\ Cardinality(PathsOf(i, s)) <= 1
            /\ \A k \in DOMAIN taskQueue :
                  taskQueue[k].imageIndex = i /\ s \in Stages(taskQueue[k].loadType)
                     => taskQueue[k].imagePath \in PathsOf(i, s))

\* Both stages of an index have been requested, with different paths, and a
\* later call for the index has returned nullptr without pushing
C38_Witness ==
    /\ \E i \in Idx :
          /\ StageRequested(i, Preview)
          /\ StageRequested(i, Raw)
          /\ ~entries[i].previewLoaded
          /\ ~entries[i].rawLoaded
          /\ PathsOf(i, Preview) = {"a.raw"}
          /\ PathsOf(i, Raw) = {"b.raw"}
    /\ ret = "nullptr"
    /\ pushes = 0

====
